---- MODULE Spec2Model ----
(***************************************************************************)
(* A model of the slvm / slosh compiler core: the lowering of call, let    *)
(* and fn forms to register bytecode (compile_call.rs, compile_let.rs,     *)
(* compile_fn.rs) together with the part of the virtual machine that the   *)
(* emitted code needs in order to be run.                                  *)
(*                                                                         *)
(* Code is kept at instruction granularity: one element of `code` is one   *)
(* encoded instruction (or one encoded jump offset), so that code.len()    *)
(* differences are counted in the same unit on both sides of a jump.       *)
(***************************************************************************)
EXTENDS Integers, Sequences, FiniteSets, TLC

VARIABLES
    state,      \* the CompileState (and compile environment) being compiled into
    req,        \* the operation last requested, with the state it was entered in
    phase,      \* position of the session: what may happen next
    vm          \* the virtual machine: frames, globals, indirection cells

vars == <<state, req, phase, vm>>

-----------------------------------------------------------------------------
(* Bounds of the model *)

\* most arguments in a generated call form
MaxArgs == 2
\* most defers registered in front of a generated call
MaxDefers == 2
\* most parameters of the function whose body the call forms are compiled in
MaxParams == 2
\* size of a frame's register window in the model
NumRegs == 12

-----------------------------------------------------------------------------
(* Values and forms *)

\* symbol names that may be bound; specials are recognised by name in Compile
Names == {"a", "b", "c", "f", "h", "x", "y", "z", "g", "u"}

NameSeq == <<"a", "b", "c", "f", "h", "x", "y", "z", "g", "u">>

Val(t, v) == [t |-> t, v |-> v]

Nil == Val("nil", 0)

Undefined == Val("undef", 0)

True == Val("true", 0)

IntV(n) == Val("int", n)

\* a form as the reader hands it to the compiler
Node(t, s, v, args) == [t |-> t, s |-> s, v |-> v, args |-> args]

Sym(s) == Node("sym", s, 0, <<>>)

IntForm(n) == Node("int", "", n, <<>>)

Kw(s) == Node("kw", s, IF s = ":=" THEN 1 ELSE 2, <<>>)

NilForm == Node("nil", "", 0, <<>>)

List(args) == Node("list", "", 0, args)

Vec(args) == Node("vec", "", 0, args)

Map(args) == Node("map", "", 0, args)

\* a builtin function value standing in head position
BuiltinForm(n) == Node("builtin", "", n, <<>>)

Ins(op, a, b, c) == [op |-> op, a |-> a, b |-> b, c |-> c]

Max2(a, b) == IF a < b THEN b ELSE a

-----------------------------------------------------------------------------
(* CompileState *)

NoSyms == [n \in Names |-> 0]

\* CompileState::new(): an empty chunk, register 0 reserved, no enclosing scope
NewState ==
    [code |-> <<>>, constants |-> <<>>, tail |-> FALSE, defers |-> 0,
     max_regs |-> 0, syms |-> NoSyms, count |-> 1, outer |-> NoSyms,
     captures |-> <<>>, args |-> 0, opt_args |-> 0, rest |-> FALSE,
     err |-> "", heap |-> <<>>, gslots |-> NoSyms, gcount |-> 0,
     debug_build |-> FALSE]

Failed(st) == st.err # ""

Fail(st, msg) == IF Failed(st) THEN st ELSE [st EXCEPT !.err = msg]

\* chunk.encodeN(op, ...): append one instruction
Emit(st, ins) == IF Failed(st) THEN st ELSE [st EXCEPT !.code = Append(@, ins)]

\* Symbols::contains_symbol
contains_symbol(st, i) == st.syms[i] # 0

\* Symbols::regs_count / CompileState::reserved_regs
reserved_regs(st) == st.count

\* Symbols::reserve_reg: the register handed out is the old count
reserve_reg(st) == [st EXCEPT !.count = @ + 1]

\* Symbols::insert: bind the name to the next register
insert(st, i) == [st EXCEPT !.syms[i] = st.count, !.count = @ + 1]

\* Symbols::insert_reserved: bind the name to a register reserved before
insert_reserved(st, i, reg) == [st EXCEPT !.syms[i] = reg]

ConstIndex(consts, v) == CHOOSE k \in 1..Len(consts) : consts[k] = v

HasConst(st, v) == \E k \in 1..Len(st.constants) : st.constants[k] = v

\* CompileState::add_constant: the state with the constant, indices from 0
add_constant(st, v) ==
    IF HasConst(st, v) THEN st ELSE [st EXCEPT !.constants = Append(@, v)]

\* the index CompileState::add_constant answers for the value
const_index(st, v) == ConstIndex(add_constant(st, v).constants, v) - 1

EmitIf(c, st, ins) == IF c THEN Emit(st, ins) ELSE st

RECURSIVE Compile(_, _, _)

RECURSIVE CompileEach(_, _, _, _)

\* for (i, r) in cdr.iter().enumerate() { compile(env, state, *r, result + i)?; }
CompileEach(st, cdr, result, i) ==
    IF i > Len(cdr) \/ Failed(st) THEN st
    ELSE CompileEach(Compile(st, cdr[i], result + (i - 1)), cdr, result, i + 1)

-----------------------------------------------------------------------------
(* compile_call.rs *)

\* compile_params with the bulk move taken from one register too low
compile_params_offbyone(st, cdr, result, tail) ==
    EmitIf(tail, CompileEach(st, cdr, result, 1), Ins("BMOV", 1, result - 1, Len(cdr)))

compile_params(st, cdr, result, tail) ==
    EmitIf(tail, CompileEach(st, cdr, result, 1), Ins("BMOV", 1, result, Len(cdr)))

\* tail position decided on state.tail alone
tail_position_nodefers(st) == st.tail

\* let tail = state.tail && state.defers == 0;
tail_position(st) == st.tail /\ st.defers = 0

\* compile_call up to compile_params: b_reg counted, the constant added,
\* state.tail cleared
call_enter(st, callable, b_reg) ==
    [add_constant(st, callable) EXCEPT !.max_regs = Max2(@, b_reg), !.tail = FALSE]

compile_call(st, callable, cdr, result) ==
    Emit(Emit(compile_params(call_enter(st, callable, result + Len(cdr) + 1),
                             cdr, result + 1, tail_position(st)),
              Ins("CONST", result + Len(cdr) + 1, const_index(st, callable), 0)),
         IF tail_position(st)
         THEN Ins("TCALL", result + Len(cdr) + 1, Len(cdr), 0)
         ELSE Ins("CALL", result + Len(cdr) + 1, Len(cdr), result))

\* state.tail is cleared only after the arguments are compiled
compile_callg_keeptail(st, global, cdr, result) ==
    [Emit(compile_params(st, cdr, result + 1, tail_position(st)),
          IF tail_position(st)
          THEN Ins("TCALLG", global, Len(cdr), 0)
          ELSE Ins("CALLG", global, Len(cdr), result))
     EXCEPT !.tail = FALSE]

compile_callg(st, global, cdr, result) ==
    Emit(compile_params([st EXCEPT !.tail = FALSE], cdr, result + 1,
                        tail_position(st)),
         IF tail_position(st)
         THEN Ins("TCALLG", global, Len(cdr), 0)
         ELSE Ins("CALLG", global, Len(cdr), result))

\* compile_call_reg in tail position: the callable is saved above the
\* arguments before they are compiled
call_reg_tail(st, reg, cdr, result, b_reg) ==
    Emit(compile_params(Emit([st EXCEPT !.tail = FALSE, !.max_regs = Max2(@, b_reg)],
                             Ins("MOV", b_reg, reg, 0)),
                        cdr, result + 1, TRUE),
         Ins("TCALL", b_reg, Len(cdr), 0))

compile_call_reg(st, reg, cdr, result) ==
    IF tail_position(st)
    THEN call_reg_tail(st, reg, cdr, result, result + Len(cdr) + 2)
    ELSE Emit(compile_params([st EXCEPT !.tail = FALSE], cdr, result + 1, FALSE),
              Ins("CALL", reg, Len(cdr), result))

\* let tail = force_tail || (state.tail && state.defers == 0);
myself_tail(st, force_tail) == force_tail \/ (st.tail /\ st.defers = 0)

compile_call_myself(st, cdr, result, force_tail) ==
    Emit(compile_params([st EXCEPT !.tail = FALSE], cdr, result + 1,
                        myself_tail(st, force_tail)),
         IF myself_tail(st, force_tail)
         THEN Ins("TCALLM", Len(cdr), 0, 0)
         ELSE Ins("CALLM", Len(cdr), result, 0))

-----------------------------------------------------------------------------
(* compile_let.rs *)

\* get_args_iter: the binding / parameter list must be a sequence
IsArgsList(n) == n.t \in {"vec", "list", "nil"}

\* resolve_destruct_containers: a target that already is a symbol, a vector
\* or a map is handed back as it is
resolve_destruct_containers(a) == a

PatternSyms(pat) ==
    {k \in 1..Len(pat.args) : pat.args[k].t = "sym" /\ pat.args[k].s \in Names}

RECURSIVE destruct_compile(_, _, _, _)

\* DestructState::do_destructure and ::compile, reduced to what the binding
\* of names needs: each symbol of the pattern is read out of the container
\* register into a register of its own and bound to it
destruct_compile(st, pat, reg, k) ==
    IF k > Len(pat.args) \/ Failed(st) THEN st
    ELSE IF k \in PatternSyms(pat)
    THEN destruct_compile(
             insert_reserved(Emit(reserve_reg(st), Ins("GET", st.count, reg, k - 1)),
                             pat.args[k].s, st.count),
             pat, reg, k + 1)
    ELSE destruct_compile(st, pat, reg, k + 1)

compile_let_value(st, val, reg) ==
    EmitIf(reg # reserved_regs(st) + 1,
           Compile(st, val, reserved_regs(st) + 1),
           Ins("SET", reg, reserved_regs(st) + 1, 0))

\* one element of right_exps
RightSideExp(interned, reg, val, dtype, pat) ==
    [interned |-> interned, reg |-> reg, val |-> val, dtype |-> dtype, pat |-> pat]

\* the walk of let_inner over the bindings: the state, right_exps, free_reg
LetWalk(st, rx, free_reg) == [st |-> st, rx |-> rx, free_reg |-> free_reg]

\* the symbol arm binding a new name only after its value is compiled
let_symbol_late(t, i, value) ==
    [t EXCEPT !.st = reserve_reg(@),
              !.rx = Append(@, RightSideExp(i, t.st.count, value, "", Sym(i)))]

\* the symbol arm storing a rebinding into the register the name already has
let_symbol_reuse(t, i, value) ==
    IF contains_symbol(t.st, i)
    THEN [t EXCEPT !.rx = Append(@, RightSideExp("", t.st.syms[i], value, "", Sym(i)))]
    ELSE [t EXCEPT !.st = insert(@, i),
                   !.rx = Append(@, RightSideExp("", t.st.count, value, "", Sym(i)))]

\* the symbol arm binding a new name without taking its register
let_symbol_noadvance(t, i, value) ==
    IF contains_symbol(t.st, i)
    THEN [t EXCEPT !.st = reserve_reg(@),
                   !.rx = Append(@, RightSideExp(i, t.st.count, value, "", Sym(i)))]
    ELSE [t EXCEPT !.st = insert_reserved(@, i, t.st.count),
                   !.rx = Append(@, RightSideExp("", t.st.count, value, "", Sym(i)))]

\* Value::Symbol(i) in let_inner's first loop: a name the scope knows gets an
\* unnamed register and is bound after its value, a new name is bound now
let_symbol(t, i, value) ==
    IF contains_symbol(t.st, i)
    THEN [t EXCEPT !.st = reserve_reg(@),
                   !.rx = Append(@, RightSideExp(i, t.st.count, value, "", Sym(i)))]
    ELSE [t EXCEPT !.st = insert(@, i),
                   !.rx = Append(@, RightSideExp("", t.st.count, value, "", Sym(i)))]

\* the match of let_inner's first loop: give the target its register
let_target(t, a, value) ==
    CASE a.t = "sym" -> let_symbol(t, a.s, value)
      [] a.t \in {"vec", "map"} ->
           [t EXCEPT !.st = reserve_reg(@),
                     !.rx = Append(@, RightSideExp("", t.st.count, value, a.t, a))]
      [] OTHER -> [t EXCEPT !.st = Fail(@, "must be a symbol")]

RECURSIVE let_targets(_, _, _)

\* let_inner's first loop: while let Some(a) = args_iter.next() { ... }
let_targets(t, args, k) ==
    IF Failed(t.st) \/ k > Len(args) THEN t
    ELSE IF k + 1 > Len(args)
    THEN [t EXCEPT !.st = Fail(@, "let: symbol must have a value")]
    ELSE let_targets(let_target(t, resolve_destruct_containers(args[k]), args[k + 1]),
                     args, k + 2)

\* symbols.borrow_mut().insert_reserved(interned, reg) once the value compiled
bind_reserved(st, e) ==
    IF e.interned # "" /\ ~Failed(st) THEN insert_reserved(st, e.interned, e.reg)
    ELSE st

\* free_reg = state.reserved_regs() after a destructuring binding
free_after_destructure(v, st) == [v EXCEPT !.st = st, !.free_reg = reserved_regs(st)]

\* the match of let_inner's second loop
let_value(v, e) ==
    IF e.dtype = ""
    THEN [v EXCEPT !.st = bind_reserved(compile_let_value(@, e.val, e.reg), e),
                   !.free_reg = Max2(@, e.reg + 1)]
    ELSE free_after_destructure(v,
             destruct_compile(compile_let_value(v.st, e.val, e.reg), e.pat, e.reg, 1))

RECURSIVE let_values(_, _)

\* let_inner's second loop: for (interned, reg, val, destruct_type) in right_exps
let_values(v, k) ==
    IF Failed(v.st) \/ k > Len(v.rx) THEN v
    ELSE let_values(let_value(v, v.rx[k]), k + 1)

RECURSIVE let_body(_, _, _, _, _, _)

\* for (i, r) in cdr_iter.enumerate(): the last body form inherits old_tail
let_body(st, body, i, last_thing, old_tail, free_reg) ==
    IF Failed(st) \/ i >= Len(body) THEN st
    ELSE let_body(Compile(IF i = last_thing THEN [st EXCEPT !.tail = old_tail] ELSE st,
                          body[i + 1], free_reg),
                  body, i + 1, last_thing, old_tail, free_reg)

RECURSIVE EmitTimes(_, _, _)

EmitTimes(st, ins, n) == IF n <= 0 THEN st ELSE EmitTimes(Emit(st, ins), ins, n - 1)

RECURSIVE clear_regs(_, _, _, _)

\* for i in first_reg..regs_count() { if i != result { CLRREG i } }
clear_regs(st, i, last, result) ==
    IF i >= last THEN st
    ELSE clear_regs(EmitIf(i # result, st, Ins("CLRREG", i, 0, 0)), i + 1, last, result)

\* Symbols::with_let and the first_reg loop: the let's registers start
\* above the result register
let_scope(st, result) ==
    [st EXCEPT !.count = IF @ > result THEN @ ELSE result + 2]

first_reg_of(st, result) == IF st.count > result THEN st.count ELSE result + 1

\* let_inner from the body on: the body forms, then the result moved down
let_forms(v, cdr, result, old_tail) ==
    EmitIf(v.free_reg # result,
           let_body(v.st, Tail(cdr), 0, IF Len(cdr) > 1 THEN Len(cdr) - 2 ELSE 0,
                    old_tail, v.free_reg),
           Ins("MOV", result, v.free_reg, 0))

\* the end of let_inner with no DFRPOP emitted
let_exit_nopop(st, start_defers, first_reg, result) ==
    clear_regs(st, first_reg, st.count, result)

\* the end of let_inner: a DFRPOP per defer registered in the let, then the
\* let's registers cleared
let_exit(st, start_defers, first_reg, result) ==
    clear_regs(EmitTimes(st, Ins("DFRPOP", 0, 0, 0), st.defers - start_defers),
               first_reg, st.count, result)

let_inner(st, cdr, result, old_tail) ==
    IF ~IsArgsList(cdr[1]) THEN Fail(let_scope(st, result), "let: not a list of bindings")
    ELSE let_exit(
             let_forms(
                 let_values(
                     let_targets(LetWalk(let_scope(st, result), <<>>, result),
                                 cdr[1].args, 1),
                     1),
                 cdr, result, old_tail),
             st.defers, first_reg_of(st, result), result)

\* compile_let that leaves the let's defers counted in the enclosing scope
compile_let_keepdefers(st, cdr, result) ==
    IF Len(cdr) = 0 THEN Fail(st, "Too few arguments, need at least 1 got 0.")
    ELSE [let_inner([st EXCEPT !.tail = FALSE], cdr, result, st.tail)
             EXCEPT !.tail = st.tail, !.syms = st.syms, !.count = st.count]

\* compile_let that leaves the let's names bound in the enclosing scope
compile_let_keepsyms(st, cdr, result) ==
    IF Len(cdr) = 0 THEN Fail(st, "Too few arguments, need at least 1 got 0.")
    ELSE [let_inner([st EXCEPT !.tail = FALSE], cdr, result, st.tail)
             EXCEPT !.tail = st.tail, !.defers = st.defers]

compile_let(st, cdr, result) ==
    IF Len(cdr) = 0 THEN Fail(st, "Too few arguments, need at least 1 got 0.")
    ELSE [let_inner([st EXCEPT !.tail = FALSE], cdr, result, st.tail)
             EXCEPT !.tail = st.tail, !.syms = st.syms, !.count = st.count,
                    !.defers = st.defers]

-----------------------------------------------------------------------------
(* compile_fn.rs *)

IsNumEq(a) == a.t = "kw" /\ a.s = ":="

Pop(seq) == IF Len(seq) = 0 THEN seq ELSE SubSeq(seq, 1, Len(seq) - 1)

\* the loop state of mk_state
ArgsWalk(ns, opt, rest, opt_comps, destructures, next_is_opt, total_args) ==
    [ns |-> ns, opt |-> opt, rest |-> rest, opt_comps |-> opt_comps,
     destructures |-> destructures, next_is_opt |-> next_is_opt,
     total_args |-> total_args]

\* count one parameter: opt_args after %, args before it
count_param(w, ns) ==
    IF w.opt
    THEN [w EXCEPT !.ns = [ns EXCEPT !.opt_args = @ + 1],
                   !.opt_comps = Append(@, NilForm),
                   !.total_args = @ + 1]
    ELSE [w EXCEPT !.ns = [ns EXCEPT !.args = @ + 1],
                   !.total_args = @ + 1]

\* destructures.push((total_args, handle))
push_destructure(w, a) == [w EXCEPT !.destructures = Append(@, <<w.total_args, a>>)]

\* the Value::Keyword(i) if i == state.specials.numeq arm of mk_state's loop
mk_state_numeq(w) ==
    IF ~w.opt
    THEN [w EXCEPT !.ns = Fail(@, "invalid args, := must come after % (optional)")]
    ELSE IF w.next_is_opt
    THEN [w EXCEPT !.ns = Fail(@, "invalid args, := := invalid")]
    ELSE [w EXCEPT !.next_is_opt = TRUE]

\* the body of mk_state's loop: for a in args_iter { ... }
mk_state_arg(w, a) ==
    IF w.next_is_opt
    THEN [w EXCEPT !.opt_comps = Append(Pop(@), a), !.next_is_opt = FALSE]
    ELSE CASE a.t = "sym" ->
                IF a.s = "&" THEN [w EXCEPT !.rest = TRUE]
                ELSE IF a.s = "%" THEN [w EXCEPT !.opt = TRUE]
                ELSE count_param(w, insert(w.ns, a.s))
           [] IsNumEq(a) -> mk_state_numeq(w)
           [] a.t = "vec" -> push_destructure(count_param(w, reserve_reg(w.ns)), a)
           [] OTHER ->
                [w EXCEPT !.ns = Fail(@, "invalid args, must be symbols")]

RECURSIVE mk_state_loop(_, _, _)

mk_state_loop(w, args_iter, k) ==
    IF k > Len(args_iter) \/ Failed(w.ns) THEN w
    ELSE mk_state_loop(mk_state_arg(w, args_iter[k]), args_iter, k + 1)

\* CompileState::new_state(.., Some(state.symbols.clone())): a fresh chunk
\* whose scope is a child of the current one; the environment is shared
new_state(st) ==
    [NewState EXCEPT !.outer = st.syms, !.heap = st.heap,
                     !.gslots = st.gslots, !.gcount = st.gcount,
                     !.debug_build = st.debug_build]

\* new_state.chunk.rest = rest;
set_rest(w) == [w EXCEPT !.ns = [@ EXCEPT !.rest = w.rest]]

mk_state(st, args) ==
    IF ~IsArgsList(args)
    THEN ArgsWalk(Fail(new_state(st), "fn: not a list of parameters"),
                  FALSE, FALSE, <<>>, <<>>, FALSE, 0)
    ELSE set_rest(mk_state_loop(
                      ArgsWalk(new_state(st), FALSE, FALSE, <<>>, <<>>, FALSE, 0),
                      args.args, 1))

RECURSIVE FormSyms(_)

\* the names a form mentions
FormSyms(r) ==
    IF r.t = "sym" THEN {r.s} \cap Names
    ELSE UNION {FormSyms(r.args[k]) : k \in 1..Len(r.args)}

RECURSIVE capture_all(_, _, _)

\* Symbols::insert_capture for every name of the body that is bound in the
\* enclosing scope and not in this one: a register of this frame, right
\* after the parameters, and an entry (name, register, enclosing register)
capture_all(ns, names, k) ==
    IF k > Len(NameSeq) THEN ns
    ELSE IF NameSeq[k] \in names /\ ns.syms[NameSeq[k]] = 0 /\ ns.outer[NameSeq[k]] # 0
    THEN capture_all([insert(ns, NameSeq[k]) EXCEPT
                         !.captures = Append(@, <<NameSeq[k], ns.count,
                                                  ns.outer[NameSeq[k]]>>)],
                     names, k + 1)
    ELSE capture_all(ns, names, k + 1)

\* a call of a macro whose expansion fails
FailingExpansion == List(<<Sym("m")>>)

\* pass1: the pre-pass over a body form, which expands the macro calls; it
\* accepts every form of the model but the call whose expansion fails
pass1_ok(ns, r) == r # FailingExpansion

\* pass1's effect on the scope: the captures of the body are found first
pass1(ns, cdr) ==
    capture_all(ns, UNION {FormSyms(cdr[k]) : k \in 1..Len(cdr)}, 1)

\* reencode_jump_offset: overwrite the offset encoded at encode_offset
reencode_jump_offset(st, encode_offset, off) ==
    IF Failed(st) THEN st ELSE [st EXCEPT !.code[encode_offset + 1].a = off]

\* the end of a round of compile_fn's loop with the jump one word short
fn_optional_patch_short(s4, encode_offset, start_offset) ==
    reencode_jump_offset(s4, encode_offset, Len(s4.code) - start_offset - 1)

\* reencode_jump_offset(encode_offset, code.len() - start_offset)
fn_optional_patch(s4, encode_offset, start_offset) ==
    reencode_jump_offset(s4, encode_offset, Len(s4.code) - start_offset)

\* from start_offset on: the default's code, the MOV into the parameter
fn_optional_default(s2, encode_offset, target_reg, r, reserved) ==
    fn_optional_patch(Emit(Compile(s2, r, reserved),
                           Ins("MOV", target_reg, reserved, 0)),
                      encode_offset, Len(s2.code))

\* from encode_offset on: the jump offset word, zero for now
fn_optional_offset(s1, target_reg, r, reserved) ==
    fn_optional_default(Emit(s1, Ins("OFFSET", 0, 0, 0)), Len(s1.code),
                        target_reg, r, reserved)

\* one round of compile_fn's loop over opt_comps
fn_optional(ns, i, r, reserved) ==
    fn_optional_offset(Emit(ns, Ins("JMPNU", ns.args + i + 1, 0, 0)),
                       ns.args + i + 1, r, reserved)

RECURSIVE fn_optionals(_, _, _, _)

fn_optionals(ns, opt_comps, i, reserved) ==
    IF Failed(ns) \/ i >= Len(opt_comps) THEN ns
    ELSE fn_optionals(fn_optional(ns, i, opt_comps[i + 1], reserved),
                      opt_comps, i + 1, reserved)

RECURSIVE fn_destructures(_, _, _)

\* do_destructure / setup_destructures / setup_optionals for the patterns
fn_destructures(ns, pats, k) ==
    IF Failed(ns) \/ k > Len(pats) THEN ns
    ELSE fn_destructures(destruct_compile(ns, pats[k][2], pats[k][1], 1), pats, k + 1)

RECURSIVE fn_body(_, _, _, _, _)

\* for (i, r) in cdr.iter().enumerate(): the last form is marked tail
fn_body(ns, cdr, i, last_thing, reserved) ==
    IF Failed(ns) \/ i >= Len(cdr) THEN ns
    ELSE fn_body(Compile(IF i = last_thing THEN [ns EXCEPT !.tail = TRUE] ELSE ns,
                         cdr[i + 1], reserved),
                 cdr, i + 1, last_thing, reserved)

RECURSIVE CaptureRegs(_, _)

\* caps.push((*c + 1) as u32) for every recorded capture
CaptureRegs(captures, k) ==
    IF k > Len(captures) THEN <<>>
    ELSE <<captures[k][3] + 1>> \o CaptureRegs(captures, k + 1)

\* the chunk of a finished function state
ChunkOf(ns, reserved, is_macro) ==
    [code |-> ns.code, constants |-> ns.constants, args |-> ns.args,
     opt_args |-> ns.opt_args, rest |-> ns.rest,
     captures |-> CaptureRegs(ns.captures, 1),
     input_regs |-> reserved, extra_regs |-> ns.max_regs - reserved,
     macro |-> is_macro]

\* hand the environment of the child state back to the parent
JoinEnv(st, ns) ==
    [st EXCEPT !.heap = ns.heap, !.gslots = ns.gslots, !.gcount = ns.gcount]

\* alloc_lambda, state.add_constant(lambda), CONST and, for a closure, CLOSE
fn_load(p1, lambda, closure, result) ==
    EmitIf(closure,
           Emit(add_constant(p1, lambda),
                Ins("CONST", result, const_index(p1, lambda), 0)),
           Ins("CLOSE", result, result, 0))

\* compile_fn after the body: the chunk is finished and put on the heap
fn_finish(st, s4, reserved, result, is_macro) ==
    IF Failed(s4) THEN Fail(JoinEnv(st, s4), s4.err)
    ELSE IF s4.max_regs < reserved /\ st.debug_build
    THEN Fail(JoinEnv(st, s4), "panic: attempt to subtract with overflow")
    ELSE fn_load([JoinEnv(st, s4) EXCEPT
                     !.heap = Append(@, ChunkOf(s4, reserved, is_macro))],
                 Val("lambda", Len(s4.heap) + 1), Len(s4.captures) > 0, result)

\* compile_fn from the second `reserved` on: the body and SRET;
\* cdr.len() - 1 on a usize panics for an empty body when overflow checks
\* are compiled in and wraps around otherwise
fn_forms(st, s2, cdr, result, is_macro) ==
    IF Failed(s2) THEN Fail(JoinEnv(st, s2), s2.err)
    ELSE IF Len(cdr) = 0 /\ st.debug_build
    THEN Fail(JoinEnv(st, s2), "panic: attempt to subtract with overflow")
    ELSE fn_finish(st,
                   Emit(fn_body(s2, cdr, 0, Len(cdr) - 1, reserved_regs(s2)),
                        Ins("SRET", reserved_regs(s2), 0, 0)),
                   reserved_regs(s2), result, is_macro)

\* compile_fn after pass1: the optional defaults and the destructurings
fn_prologue(st, s0, w, cdr, result, is_macro) ==
    fn_forms(st,
             fn_destructures(fn_optionals(s0, w.opt_comps, 0, reserved_regs(s0)),
                             w.destructures, 1),
             cdr, result, is_macro)

\* compile_fn after mk_state
fn_with_state(st, w, cdr, result, is_macro) ==
    IF Failed(w.ns) THEN Fail(JoinEnv(st, w.ns), w.ns.err)
    ELSE IF \E k \in 1..Len(cdr) : ~pass1_ok(w.ns, cdr[k])
    THEN Fail(st, "panic: pass1")
    ELSE fn_prologue(st, pass1(w.ns, cdr), w, cdr, result, is_macro)

compile_fn(st, args, cdr, result, is_macro) ==
    fn_with_state(st, mk_state(st, args), cdr, result, is_macro)

-----------------------------------------------------------------------------
(* compile: the dispatch on the form, for the forms the model compiles *)

ConstForms == {"int", "kw", "nil", "vec", "map", "builtin"}

\* a self-evaluating value: CONST of the constant into the destination
compile_const(st, v, result) ==
    Emit(add_constant(st, v), Ins("CONST", result, const_index(st, v), 0))

\* a symbol reference: a local (or captured) register, else a global slot
compile_symbol(st, i, result) ==
    IF i \in Names /\ st.syms[i] # 0
    THEN Emit(st, Ins("MOV", result, st.syms[i], 0))
    ELSE IF i \in Names /\ st.gslots[i] # 0
    THEN Emit(st, Ins("REFI", result, st.gslots[i], 0))
    ELSE Fail(st, "Symbol not defined.")

\* state.defers += 1 once the DFR is emitted
count_defer(st) == IF Failed(st) THEN st ELSE [st EXCEPT !.defers = @ + 1]

\* (defer body..): a lambda of no parameters put on the frame's defer stack
compile_defer(st, cdr, result) ==
    count_defer(Emit(compile_fn(st, NilForm, cdr, result, FALSE),
                     Ins("DFR", result, 0, 0)))

\* (set! name value): the local binding when there is one, else the global
compile_set(st, cdr, result) ==
    IF Len(cdr) # 2 \/ cdr[1].t # "sym" \/ cdr[1].s \notin Names
    THEN Fail(st, "set!: malformed")
    ELSE IF st.syms[cdr[1].s] = 0 /\ st.gslots[cdr[1].s] = 0
    THEN Fail(st, "Symbol not defined.")
    ELSE Emit(Compile(st, cdr[2], result),
              IF st.syms[cdr[1].s] # 0
              THEN Ins("SET", st.syms[cdr[1].s], result, 0)
              ELSE Ins("DEF", st.gslots[cdr[1].s], result, 0))

\* the global's slot, reserved at its first definition
def_slot(st, i) ==
    IF st.gslots[i] # 0 THEN st
    ELSE [st EXCEPT !.gslots[i] = st.gcount + 1, !.gcount = @ + 1]

\* (def name value): reserve the global's slot, then store the value
compile_def(st, cdr, result) ==
    IF Len(cdr) # 2 \/ cdr[1].t # "sym" \/ cdr[1].s \notin Names
    THEN Fail(st, "def: malformed")
    ELSE Emit(Compile(def_slot(st, cdr[1].s), cdr[2], result),
              Ins("DEF", def_slot(st, cdr[1].s).gslots[cdr[1].s], result, 0))

RECURSIVE do_body(_, _, _, _, _)

do_body(st, cdr, i, old_tail, result) ==
    IF Failed(st) \/ i > Len(cdr) THEN st
    ELSE do_body(Compile(IF i = Len(cdr) THEN [st EXCEPT !.tail = old_tail] ELSE st,
                         cdr[i], result),
                 cdr, i + 1, old_tail, result)

restore_tail(st, tail) == IF Failed(st) THEN st ELSE [st EXCEPT !.tail = tail]

\* (do form..): the forms in order, the last one in the do's own position
compile_do(st, cdr, result) ==
    restore_tail(do_body([st EXCEPT !.tail = FALSE], cdr, 1, st.tail, result), st.tail)

\* the operands are in result and result + 1
math_done(st, tail, result) ==
    IF Failed(st) THEN st
    ELSE [st EXCEPT !.tail = tail, !.max_regs = Max2(@, result + 1)]

\* (+ a b) and (- a b): the operands in result and result + 1
compile_math(st, op, cdr, result) ==
    IF Len(cdr) # 2 THEN Fail(st, "math: two operands")
    ELSE math_done(Emit(CompileEach([st EXCEPT !.tail = FALSE], cdr, result, 1),
                        Ins(op, result, result, result + 1)),
                   st.tail, result)

compile_list(st, car, cdr, result) ==
    IF car.t = "builtin" THEN compile_call(st, Val("builtin", car.v), cdr, result)
    ELSE IF car.t # "sym" THEN Fail(st, "not a callable")
    ELSE CASE car.s = "let" -> compile_let(st, cdr, result)
           [] car.s \in {"fn", "macro"} ->
                IF Len(cdr) = 0 THEN Fail(st, "fn: no parameter list")
                ELSE compile_fn(st, cdr[1], Tail(cdr), result, car.s = "macro")
           [] car.s = "defer" -> compile_defer(st, cdr, result)
           [] car.s = "set!" -> compile_set(st, cdr, result)
           [] car.s = "def" -> compile_def(st, cdr, result)
           [] car.s = "do" -> compile_do(st, cdr, result)
           [] car.s \in {"+", "-"} ->
                compile_math(st, IF car.s = "+" THEN "ADD" ELSE "SUB", cdr, result)
           [] car.s = "this-fn" -> compile_call_myself(st, cdr, result, FALSE)
           [] OTHER ->
                IF car.s \in Names /\ st.syms[car.s] # 0
                THEN compile_call_reg(st, st.syms[car.s], cdr, result)
                ELSE IF car.s \in Names /\ st.gslots[car.s] # 0
                THEN compile_callg(st, st.gslots[car.s], cdr, result)
                ELSE Fail(st, "Symbol not defined.")

\* result is the highest register in use so far
use_reg(st, result) == [st EXCEPT !.max_regs = Max2(@, result)]

Compile(st, exp, result) ==
    IF Failed(st) THEN st
    ELSE CASE exp.t = "sym" -> compile_symbol(use_reg(st, result), exp.s, result)
           [] exp.t \in ConstForms \/ (exp.t = "list" /\ Len(exp.args) = 0) ->
                compile_const(use_reg(st, result),
                              IF exp.t = "list" THEN Nil ELSE Val(exp.t, exp.v), result)
           [] exp.t = "list" ->
                compile_list(use_reg(st, result), exp.args[1], Tail(exp.args), result)
           [] OTHER -> Fail(st, "unknown form")

-----------------------------------------------------------------------------
(* The virtual machine, for the opcodes the compiled forms use *)

Regs == 0..(NumRegs - 1)

NoRegs == [r \in Regs |-> Undefined]

Frame(chunk, ip, regs, ret, after) ==
    [chunk |-> chunk, ip |-> ip, regs |-> regs, dfr |-> <<>>,
     ret |-> ret, after |-> after]

\* a machine with nothing loaded
NewVm ==
    [frames |-> <<>>, globals |-> [k \in 1..Len(NameSeq) |-> Undefined],
     boxes |-> <<>>, closures |-> <<>>, trace |-> <<>>, dlog |-> <<>>,
     status |-> "idle", errkw |-> "", result |-> Undefined]

TopFrame(v) == v.frames[Len(v.frames)]

SetTop(v, f) == [v EXCEPT !.frames[Len(v.frames)] = f]

\* chunk 0 is the chunk under compilation, k > 0 a lambda's chunk on the heap
CodeOf(st, f) == IF f.chunk = 0 THEN st.code ELSE st.heap[f.chunk].code

ConstsOf(st, f) == IF f.chunk = 0 THEN st.constants ELSE st.heap[f.chunk].constants

\* Value::unref: an indirection cell stands for its target
Unref(v, x) == IF x.t = "box" THEN v.boxes[x.v] ELSE x

Raise(v, kw) == [v EXCEPT !.status = "unwind", !.errkw = kw]

\* a registered builtin: it notes its first argument and answers 100 more
BuiltinApply(argv) == IF Len(argv) > 0 /\ argv[1].t = "int" THEN IntV(100 + argv[1].v)
                      ELSE IntV(100)

BuiltinNote(argv) == IF Len(argv) > 0 /\ argv[1].t = "int" THEN argv[1].v ELSE 0

\* entry to a function: arity, arguments in 1..n, the rest Undefined, the
\* closure's cells in the registers after the parameters
EnterFrame(st, v, callee, argv, ret, after) ==
    LET idx == IF callee.t = "closure" THEN v.closures[callee.v].chunk ELSE callee.v
        caps == IF callee.t = "closure" THEN v.closures[callee.v].caps ELSE <<>>
        ch == st.heap[idx]
        n == Len(argv)
        np == ch.args + ch.opt_args
        regs == [r \in Regs |->
                   IF r >= 1 /\ r <= n THEN argv[r]
                   ELSE IF r > np /\ r <= np + Len(caps) THEN Val("box", caps[r - np])
                   ELSE Undefined]
    IN  IF callee.t \notin {"lambda", "closure"} THEN Raise(v, ":type")
        ELSE IF n < ch.args \/ (n > np /\ ~ch.rest) THEN Raise(v, ":arity")
        ELSE [v EXCEPT !.frames = Append(@, Frame(idx, 1, regs, ret, after)),
                       !.status = "run"]

\* run the thunk on top of the frame's defer stack
RunDefer(st, v, after) ==
    LET f == TopFrame(v)
        thunk == f.dfr[Len(f.dfr)]
        v1 == SetTop(v, [f EXCEPT !.dfr = Pop(@)])
        idx == IF thunk.t = "closure" THEN v.closures[thunk.v].chunk ELSE thunk.v
    IN  EnterFrame(st, [v1 EXCEPT !.dlog = Append(@, idx)], thunk, <<>>, -1, after)

RECURSIVE bmov(_, _, _, _, _)

\* BMOV dst,src,n: register by register, upwards
bmov(regs, dst, src, n, i) ==
    IF i >= n THEN regs
    ELSE bmov([regs EXCEPT ![dst + i] = regs[src + i]], dst, src, n, i + 1)

RECURSIVE close_cells(_, _, _)

\* CLOSE: every captured register of the enclosing frame becomes (or already
\* is) an indirection cell; answers the frame's registers, the cells and the
\* closure's capture slots
close_cells(acc, captures, k) ==
    IF k > Len(captures) THEN acc
    ELSE LET r == captures[k] - 1
             cur == acc.regs[r]
         IN  IF cur.t = "box"
             THEN close_cells([acc EXCEPT !.caps = Append(@, cur.v)],
                              captures, k + 1)
             ELSE close_cells([regs |-> [acc.regs EXCEPT ![r] = Val("box", Len(acc.boxes) + 1)],
                               boxes |-> Append(acc.boxes, cur),
                               caps |-> Append(acc.caps, Len(acc.boxes) + 1)],
                              captures, k + 1)

ArgValues(v, f, first, n) == [k \in 1..n |-> Unref(v, f.regs[first + k - 1])]

\* the call of a value: a builtin answers at once, a function gets a frame
CallValue(st, v, f, callee, first, n, ret) ==
    LET argv == ArgValues(v, f, first, n)
        v1 == SetTop(v, [f EXCEPT !.ip = @ + 1])
    IN  IF callee.t = "builtin"
        THEN [SetTop(v, [f EXCEPT !.ip = @ + 1, !.regs[ret] = BuiltinApply(argv)])
                EXCEPT !.trace = Append(@, BuiltinNote(argv))]
        ELSE EnterFrame(st, v1, callee, argv, ret, "run")

\* return of the top frame with the value of register r
Return(v, f, r) ==
    LET val == f.regs[r]
        rest == Pop(v.frames)
        v1 == [v EXCEPT !.frames = rest, !.status = f.after]
    IN  IF Len(rest) = 0 THEN [v1 EXCEPT !.status = "done", !.result = val]
        ELSE IF f.ret < 0 THEN v1
        ELSE [v1 EXCEPT !.frames[Len(rest)].regs[f.ret] = val]

Arith(op, x, y) == IF op = "ADD" THEN IntV(x.v + y.v) ELSE IntV(x.v - y.v)

\* the tail call of a value: the defers of the frame run first, then the
\* callee takes the frame's place and answers to the frame's caller
TailCallValue(st, v, f, callee, n) ==
    IF Len(f.dfr) > 0 THEN RunDefer(st, v, "run")
    ELSE IF callee.t = "builtin"
    THEN [Return(v, [f EXCEPT !.regs[0] = BuiltinApply(ArgValues(v, f, 1, n))], 0)
             EXCEPT !.trace = Append(@, BuiltinNote(ArgValues(v, f, 1, n)))]
    ELSE IF callee.t \notin {"lambda", "closure"} THEN Raise(v, ":type")
    ELSE EnterFrame(st, [v EXCEPT !.frames = Pop(@)], callee,
                    ArgValues(v, f, 1, n), f.ret, f.after)

\* one opcode of the dispatch loop, on the top frame
Exec(st, v) ==
    LET f == TopFrame(v)
        i == CodeOf(st, f)[f.ip]
        next(regs) == SetTop(v, [f EXCEPT !.ip = @ + 1, !.regs = regs])
    IN  CASE i.op = "CONST" ->
               next([f.regs EXCEPT ![i.a] = ConstsOf(st, f)[i.b + 1]])
          [] i.op = "MOV" -> next([f.regs EXCEPT ![i.a] = Unref(v, f.regs[i.b])])
          [] i.op = "SET" ->
               IF f.regs[i.a].t = "box"
               THEN [SetTop(v, [f EXCEPT !.ip = @ + 1])
                       EXCEPT !.boxes[f.regs[i.a].v] = Unref(v, f.regs[i.b])]
               ELSE next([f.regs EXCEPT ![i.a] = Unref(v, f.regs[i.b])])
          [] i.op = "BMOV" -> next(bmov(f.regs, i.a, i.b, i.c, 0))
          [] i.op = "CLRREG" -> next([f.regs EXCEPT ![i.a] = Undefined])
          [] i.op = "REFI" -> next([f.regs EXCEPT ![i.a] = v.globals[i.b]])
          [] i.op = "DEF" ->
               [SetTop(v, [f EXCEPT !.ip = @ + 1])
                  EXCEPT !.globals[i.a] = Unref(v, f.regs[i.b])]
          [] i.op \in {"ADD", "SUB"} ->
               LET x == Unref(v, f.regs[i.b])
                   y == Unref(v, f.regs[i.c])
               IN  IF x.t = "int" /\ y.t = "int"
                   THEN next([f.regs EXCEPT ![i.a] = Arith(i.op, x, y)])
                   ELSE Raise(v, ":type")
          [] i.op = "JMPNU" ->
               LET off == CodeOf(st, f)[f.ip + 1].a
               IN  IF Unref(v, f.regs[i.a]) # Undefined
                   THEN SetTop(v, [f EXCEPT !.ip = @ + 2 + off])
                   ELSE SetTop(v, [f EXCEPT !.ip = @ + 2])
          [] i.op = "DFR" ->
               SetTop(v, [f EXCEPT !.ip = @ + 1, !.dfr = Append(@, f.regs[i.a])])
          [] i.op = "DFRPOP" ->
               IF Len(f.dfr) = 0 THEN next(f.regs)
               ELSE RunDefer(st, SetTop(v, [f EXCEPT !.ip = @ + 1]), "run")
          [] i.op = "CLOSE" ->
               LET lam == f.regs[i.b]
                   c == close_cells([regs |-> f.regs, boxes |-> v.boxes, caps |-> <<>>],
                                    st.heap[lam.v].captures, 1)
                   clo == [chunk |-> lam.v, caps |-> c.caps]
               IN  [SetTop(v, [f EXCEPT !.ip = @ + 1,
                                        !.regs = [c.regs EXCEPT ![i.a] =
                                                    Val("closure", Len(v.closures) + 1)]])
                      EXCEPT !.boxes = c.boxes, !.closures = Append(@, clo)]
          [] i.op = "CALL" ->
               CallValue(st, v, f, Unref(v, f.regs[i.a]), i.c + 1, i.b, i.c)
          [] i.op = "CALLG" ->
               CallValue(st, v, f, v.globals[i.a], i.c + 1, i.b, i.c)
          [] i.op = "TCALL" -> TailCallValue(st, v, f, Unref(v, f.regs[i.a]), i.b)
          [] i.op = "TCALLG" -> TailCallValue(st, v, f, v.globals[i.a], i.b)
          [] i.op \in {"SRET", "RET"} ->
               IF Len(f.dfr) > 0 THEN RunDefer(st, v, "run")
               ELSE Return(v, f, IF i.op = "RET" THEN 0 ELSE i.a)
          [] OTHER -> Raise(v, ":vm")

\* an error in flight: the frame's defers run, newest first, then the frame
\* is left; with no frame left the error reaches the embedder
Unwind(st, v) ==
    IF Len(v.frames) = 0 THEN [v EXCEPT !.status = "error"]
    ELSE IF Len(TopFrame(v).dfr) > 0 THEN RunDefer(st, v, "unwind")
    ELSE [v EXCEPT !.frames = Pop(@), !.status = "unwind"]

-----------------------------------------------------------------------------
(* Call forms compiled in the body of a function: compile_call.rs at work *)

ParamNames == <<"a", "b", "c">>

\* the parameter vector (a b ..) of np names
ParamList(np) == Vec([k \in 1..np |-> Sym(ParamNames[k])])

\* the environment the forms are compiled in: one builtin registered as g
RootState == [NewState EXCEPT !.gslots["g"] = 1, !.gcount = 1]

RootVm == [NewVm EXCEPT !.globals[1] = Val("builtin", 1)]

\* the argument expressions of the generated call forms
ArgAtoms ==
    {Sym("a"), List(<<Sym("g"), IntForm(5)>>),
     List(<<Sym("g"), Sym("a"), IntForm(6)>>)}

ArgLists == UNION {[1..n -> ArgAtoms] : n \in 0..MaxArgs}

\* the value parameter k is entered with
ParamValue(k) == IntV(10 + k)

EntryRegs(np) == [r \in Regs |-> IF r >= 1 /\ r <= np THEN ParamValue(r) ELSE Undefined]

NoReq ==
    [op |-> "", cdr |-> <<>>, result |-> 0, force |-> FALSE, tail |-> FALSE,
     defers |-> 0, base |-> 0, np |-> 0]

Request(op, cdr, result, force, st) ==
    [op |-> op, cdr |-> cdr, result |-> result, force |-> force,
     tail |-> st.tail, defers |-> st.defers, base |-> Len(st.code),
     np |-> st.args]

\* the machine about to run the code emitted since `base`
Loaded(st, base) ==
    [RootVm EXCEPT !.frames = <<Frame(0, base + 1, EntryRegs(st.args), -1, "run")>>,
                   !.status = "run"]

InitCall ==
    /\ \E np \in 0..MaxParams : state = mk_state(RootState, ParamList(np)).ns
    /\ req = NoReq
    /\ phase = "scope"
    /\ vm = RootVm

\* compile_fn.rs: the last form of a body is compiled with state.tail set
MarkTail ==
    /\ phase = "scope"
    /\ ~state.tail
    /\ state' = [state EXCEPT !.tail = TRUE]
    /\ UNCHANGED <<req, phase, vm>>

\* a (defer ..) form earlier in the body: state.defers counts it
RegisterDefer ==
    /\ phase = "scope"
    /\ state.defers < MaxDefers
    /\ state' = Compile(state, List(<<Sym("defer"), IntForm(0)>>), reserved_regs(state))
    /\ UNCHANGED <<req, phase, vm>>

Compiled(op, cdr, result, force, st) ==
    /\ state' = st
    /\ req' = Request(op, cdr, result, force, state)
    /\ phase' = IF Failed(st) THEN "failed" ELSE "compiled"
    /\ vm' = IF Failed(st) THEN vm ELSE Loaded(st, Len(state.code))

CallHere(cdr, result) ==
    /\ phase = "scope"
    /\ cdr \in ArgLists
    /\ result \in {reserved_regs(state), reserved_regs(state) + 1}

CompileCall ==
    \E cdr \in ArgLists, result \in Regs :
        /\ CallHere(cdr, result)
        /\ Compiled("call", cdr, result, FALSE,
                    compile_call(state, Val("builtin", 1), cdr, result))

CompileCallg ==
    \E cdr \in ArgLists, result \in Regs :
        /\ CallHere(cdr, result)
        /\ Compiled("callg", cdr, result, FALSE,
                    compile_callg(state, state.gslots["g"], cdr, result))

CompileCallReg ==
    \E cdr \in ArgLists, result \in Regs :
        /\ CallHere(cdr, result)
        /\ state.args > 0
        /\ Compiled("call_reg", cdr, result, FALSE,
                    compile_call_reg(state, state.args, cdr, result))

CompileCallMyself ==
    \E cdr \in ArgLists, result \in Regs, force_tail \in BOOLEAN :
        /\ CallHere(cdr, result)
        /\ Compiled("call_myself", cdr, result, force_tail,
                    compile_call_myself(state, cdr, result, force_tail))

\* the machine runs the emitted code up to the call opcode itself
AtCallOp == phase = "compiled" /\ TopFrame(vm).ip = Len(state.code)

VmStep ==
    /\ phase = "compiled"
    /\ vm.status = "run"
    /\ TopFrame(vm).ip < Len(state.code)
    /\ vm' = Exec(state, vm)
    /\ UNCHANGED <<state, req, phase>>

\* the call opcode is reached: control leaves the emitted code
VmCall ==
    /\ AtCallOp
    /\ vm.status = "run"
    /\ phase' = "called"
    /\ UNCHANGED <<state, req, vm>>

NextCall ==
    \/ MarkTail
    \/ RegisterDefer
    \/ CompileCall
    \/ CompileCallg
    \/ CompileCallReg
    \/ CompileCallMyself
    \/ VmStep
    \/ VmCall

SpecCall == InitCall /\ [][NextCall]_vars

-----------------------------------------------------------------------------
(* What the call forms are checked against *)

TailOps == {"TCALL", "TCALLG", "TCALLM"}

CallOps == {"CALL", "CALLG", "CALLM"}

LastOp == state.code[Len(state.code)].op

CallDone == phase \in {"compiled", "called"}

\* the opcode a request's function emits in tail and in non-tail position
TailOpOf(op) == IF op = "callg" THEN "TCALLG"
                ELSE IF op = "call_myself" THEN "TCALLM" ELSE "TCALL"

CallOpOf(op) == IF op = "callg" THEN "CALLG"
                ELSE IF op = "call_myself" THEN "CALLM" ELSE "CALL"

RECURSIVE EvalArg(_)

\* the value of an argument expression, by the meaning of the form
EvalArg(e) ==
    IF e.t = "int" THEN IntV(e.v)
    ELSE IF e.t = "sym" THEN ParamValue(1)
    ELSE BuiltinApply([k \in 1..(Len(e.args) - 1) |-> EvalArg(e.args[k + 1])])

RECURSIVE EvalNotes(_, _)

\* what the builtin notes while the arguments are evaluated left to right
EvalNotes(cdr, k) ==
    IF k > Len(cdr) THEN <<>>
    ELSE (IF cdr[k].t = "list"
          THEN <<BuiltinNote([j \in 1..(Len(cdr[k].args) - 1) |->
                                 EvalArg(cdr[k].args[j + 1])])>>
          ELSE <<>>) \o EvalNotes(cdr, k + 1)

\* the emitted code of the request
Emitted == SubSeq(state.code, req.base + 1, Len(state.code))

BmovAt == {k \in 1..Len(Emitted) : Emitted[k].op = "BMOV"}

\* the registers of the frame the emitted code runs in
RegsNow == TopFrame(vm).regs

\* argument i of the request has its value in register base + i
ArgsAt(base) ==
    \A i \in 1..Len(req.cdr) : RegsNow[base + i] = EvalArg(req.cdr[i])

\* the machine is about to execute the bulk move of the request
AtBmov ==
    /\ phase = "compiled"
    /\ vm.status = "run"
    /\ state.code[TopFrame(vm).ip].op = "BMOV"

\* the tail decision of the request as the source words it
RequestTail == req.force \/ (req.tail /\ req.defers = 0)

\* C1 (as stated): a tail opcode is emitted if and only if state.tail is
\* true and state.defers is 0 at entry, for each of the four call compilers;
\* no tail opcode is emitted while a defer is pending
C1_TailIffTailAndNoDefers ==
    CallDone =>
        /\ LastOp = (IF req.tail /\ req.defers = 0
                     THEN TailOpOf(req.op) ELSE CallOpOf(req.op))
        /\ (req.defers > 0 => LastOp \notin TailOps)

\* C1 (amended): compile_call, compile_callg and compile_call_reg emit the
\* tail opcode if and only if state.tail is true and state.defers is 0 at
\* entry; compile_call_myself emits TCALLM if and only if force_tail is set
\* or state.tail is true and state.defers is 0; otherwise the non-tail
\* opcode of the function is emitted.  Without force_tail no tail opcode is
\* emitted while a defer is pending
C1_TailIffForcedOrTailAndNoDefers ==
    CallDone =>
        /\ (req.force => req.op = "call_myself")
        /\ LastOp = (IF RequestTail THEN TailOpOf(req.op) ELSE CallOpOf(req.op))
        /\ (req.defers > 0 /\ ~req.force => LastOp \notin TailOps)

\* C1 witness: with a defer pending, a forced self call got TCALLM
C1_Witness ==
    /\ CallDone
    /\ req.defers > 0
    /\ req.tail
    /\ req.op = "call_myself"
    /\ req.force
    /\ LastOp = "TCALLM"

\* C2: a tail call of n arguments has its arguments compiled left to right
\* into result+1 .. result+n, then exactly one BMOV 1, result+1, n before
\* the tail opcode, so that argument i is in register i when the tail call
\* executes; a non-tail call has no BMOV and its arguments stay in
\* result+1 .. result+n
C2_TailArgsBulkMoved ==
    CallDone =>
        /\ LastOp \in TailOps =>
              \E k \in 1..(Len(Emitted) - 1) :
                  /\ BmovAt = {k}
                  /\ Emitted[k] = Ins("BMOV", 1, req.result + 1, Len(req.cdr))
        /\ LastOp \in CallOps => BmovAt = {}
        /\ AtBmov => ArgsAt(req.result) /\ vm.trace = EvalNotes(req.cdr, 1)
        /\ phase = "called" =>
              /\ vm.trace = EvalNotes(req.cdr, 1)
              /\ IF LastOp \in TailOps THEN ArgsAt(0) ELSE ArgsAt(req.result)

\* C2 witness: a tail call of two different arguments, both of them calls
\* themselves, compiled above register 1, is about to execute
C2_Witness ==
    /\ phase = "called"
    /\ Len(req.cdr) = 2
    /\ req.cdr[1].t = "list"
    /\ req.cdr[2].t = "list"
    /\ req.cdr[1] # req.cdr[2]
    /\ LastOp \in TailOps
    /\ req.result > 1

\* C24: each of the four call compilers clears state.tail before the first
\* argument is compiled: no argument, and no call nested in an argument, is
\* compiled as a tail call, and state.tail is false when the function returns
C24_ArgumentsNotInTailPosition ==
    CallDone =>
        /\ ~state.tail
        /\ \A k \in 1..(Len(Emitted) - 1) : Emitted[k].op \notin TailOps

\* C24 witness: a call in tail position, compiled as a tail call, with a call
\* among its arguments that was compiled as an ordinary call
C24_Witness ==
    /\ CallDone
    /\ req.tail
    /\ req.defers = 0
    /\ LastOp \in TailOps
    /\ \E k \in 1..(Len(Emitted) - 1) : Emitted[k].op \in CallOps
    /\ \E k \in 1..Len(req.cdr) : req.cdr[k].t = "list"

-----------------------------------------------------------------------------
(* let forms compiled and run as test_utils::exec does: compile_let.rs at work *)

Let(bindings, body) == List(<<Sym("let"), Vec(bindings)>> \o body)

Add(a, b) == List(<<Sym("+"), a, b>>)

Sub(a, b) == List(<<Sym("-"), a, b>>)

Fn(params, body) == List(<<Sym("fn"), Vec(params)>> \o body)

Defer(body) == List(<<Sym("defer")>> \o body)

SetF(n, e) == List(<<Sym("set!"), Sym(n), e>>)

Def(n, e) == List(<<Sym("def"), Sym(n), e>>)

Do(forms) == List(<<Sym("do")>> \o forms)

CallF(n, args) == List(<<Sym(n)>> \o args)

\* most bindings in a generated let
MaxBindings == 2

\* the names the generated lets bind
LetTargets == {"x", "y"}

\* the value expressions of the generated lets
LetValues ==
    {IntForm(10), Sym("y"), Add(Sym("y"), IntForm(1)), Sub(Sym("x"), IntForm(9))}

\* binding lists t1 v1 .. tn vn
BindingLists ==
    UNION {{[k \in 1..(2 * n) |-> IF k % 2 = 1 THEN Sym(ts[(k + 1) \div 2])
                                 ELSE vs[k \div 2]] :
               ts \in [1..n -> LetTargets], vs \in [1..n -> LetValues]} :
           n \in 1..MaxBindings}

\* a generated let, alone or in the body of an enclosing (let (y 7) ..)
ScopedLets ==
    {Let(b, <<Sym(r)>>) : b \in BindingLists, r \in LetTargets}
    \cup {Let(<<Sym("y"), IntForm(7)>>, <<Let(b, <<Sym(r)>>)>>) :
              b \in BindingLists, r \in LetTargets}

NoLetReq ==
    [kind |-> "", prog |-> NilForm, expect |-> Undefined, tail |-> FALSE,
     defers |-> 0, syms |-> NoSyms, count |-> 0, base |-> 0, ndefer |-> 0]

LetRequest(kind, prog, expect, ndefer, st) ==
    [kind |-> kind, prog |-> prog, expect |-> expect, tail |-> st.tail,
     defers |-> st.defers, syms |-> st.syms, count |-> st.count,
     base |-> Len(st.code), ndefer |-> ndefer]

InitLet ==
    /\ state = RootState
    /\ req = NoLetReq
    /\ phase = "scope"
    /\ vm = RootVm

\* test_utils::exec: compile(exp, 0), then RET, then the chunk is executed
ExecForm(kind, prog, expect, ndefer) ==
    /\ phase = "scope"
    /\ state' = Emit(Compile(state, prog, 0), Ins("RET", 0, 0, 0))
    /\ req' = LetRequest(kind, prog, expect, ndefer, state)
    /\ phase' = IF Failed(state') THEN "failed" ELSE "compiled"
    /\ vm' = IF Failed(state') THEN vm ELSE Loaded(state', Len(state.code))

\* the machine's dispatch loop, one opcode at a time
RunStep ==
    /\ phase = "compiled"
    /\ vm.status = "run"
    /\ vm' = Exec(state, vm)
    /\ UNCHANGED <<state, req, phase>>

\* an error travelling up the frames
RunUnwind ==
    /\ phase = "compiled"
    /\ vm.status = "unwind"
    /\ vm' = Unwind(state, vm)
    /\ UNCHANGED <<state, req, phase>>

ExecScopedLet ==
    \E prog \in ScopedLets :
        /\ ~state.tail
        /\ state.defers = 0
        /\ ExecForm("scoped", prog, Undefined, 0)


\* most defers in a generated let
MaxLetDefers == 2

G(n) == CallF("g", <<IntForm(n)>>)

\* the defers (defer (g k)) .. of a generated let, k counting from `from`
DeferForms(n, from) == [k \in 1..n |-> Defer(<<G(from + k - 1)>>)]

\* a let with n defers whose body either answers (g 5) or fails at run time
\* in (+ (g 5) nil); with `nested` a let with a defer of its own runs first
DeferLet(n, nested, err) ==
    Let(<<Sym("a"), IntForm(1)>>,
        DeferForms(n, 1)
        \o (IF nested
            THEN <<Let(<<Sym("b"), IntForm(2)>>, <<Defer(<<G(8)>>), G(4)>>)>>
            ELSE <<>>)
        \o <<IF err THEN Add(G(5), NilForm) ELSE G(5)>>)

\* the let followed by one more form of the enclosing scope
DeferProgram(n, nested, err) == Do(<<DeferLet(n, nested, err), G(6)>>)

\* what the builtin notes when the program runs as the defers are meant to
DeferNotes(n, nested, err) ==
    (IF nested THEN <<4, 8>> ELSE <<>>) \o <<5>>
    \o [k \in 1..n |-> n + 1 - k]
    \o (IF err THEN <<>> ELSE <<6>>)

ExecDeferLet ==
    \E n \in 0..MaxLetDefers, nested \in BOOLEAN, err \in BOOLEAN :
        /\ state.defers + n + 1 <= NumRegs
        /\ ExecForm(IF err THEN "defers-error" ELSE "defers",
                    DeferProgram(n, nested, err),
                    [t |-> IF nested THEN "nested" ELSE "flat", v |-> n],
                    n + (IF nested THEN 1 ELSE 0))

\* lets the compiler must refuse, each with the error of the source
MalformedLets ==
    {[prog |-> List(<<Sym("let")>>),
      err |-> "Too few arguments, need at least 1 got 0."],
     [prog |-> Let(<<Sym("x")>>, <<Sym("x")>>),
      err |-> "let: symbol must have a value"],
     [prog |-> Let(<<Sym("x"), IntForm(10), Sym("y")>>, <<Sym("x")>>),
      err |-> "let: symbol must have a value"],
     [prog |-> Let(<<IntForm(5), IntForm(10)>>, <<IntForm(1)>>),
      err |-> "must be a symbol"],
     [prog |-> Let(<<Kw(":k"), IntForm(10)>>, <<IntForm(1)>>),
      err |-> "must be a symbol"],
     [prog |-> Let(<<Sym("x"), Sym("u")>>, <<Sym("x")>>),
      err |-> "Symbol not defined."],
     [prog |-> Let(<<Sym("x"), IntForm(10), Sym("y"), Add(Sym("x"), Sym("u"))>>,
                   <<Sym("y")>>),
      err |-> "Symbol not defined."],
     [prog |-> Let(<<Sym("x"), IntForm(10)>>,
                   <<Defer(<<G(1)>>), Let(<<Sym("y")>>, <<>>)>>),
      err |-> "let: symbol must have a value"],
     [prog |-> Let(<<Sym("x"), IntForm(10)>>,
                   <<Defer(<<G(1)>>), List(<<Sym("let")>>)>>),
      err |-> "Too few arguments, need at least 1 got 0."],
     [prog |-> Let(<<Sym("x"), Let(<<IntForm(5), IntForm(10)>>, <<>>)>>,
                   <<Sym("x")>>),
      err |-> "must be a symbol"]}

ExecMalformedLet ==
    \E p \in MalformedLets :
        /\ state.defers <= MaxDefers
        /\ ExecForm("malformed", p.prog, Val(p.err, 0), 0)

\* the values the set! programs define, assign and defer
SetValues == {1, 2, 5}

\* (do (def x v0) (let (x 10 y (+ x 10)) (set! x vs) r)) and, for "after",
\* (do (def x v0) (let (x 10 y (+ x 10)) (set! x vs)) x)
SetLet(v0, vs, shape) ==
    Do(<<Def("x", IntForm(v0))>>
       \o (IF shape = "after"
           THEN <<Let(<<Sym("x"), IntForm(10), Sym("y"), Add(Sym("x"), IntForm(10))>>,
                      <<SetF("x", IntForm(vs))>>),
                  Sym("x")>>
           ELSE <<Let(<<Sym("x"), IntForm(10), Sym("y"), Add(Sym("x"), IntForm(10))>>,
                      <<SetF("x", IntForm(vs)), Sym(shape)>>)>>))

ExecSetLet ==
    \E v0 \in SetValues, vs \in SetValues, shape \in {"after", "x", "y"} :
        /\ v0 # vs
        /\ ExecForm("set-" \o shape, SetLet(v0, vs, shape),
                    IntV(IF shape = "after" THEN v0 ELSE IF shape = "x" THEN vs ELSE 20), 0)

\* (do (def x v0) (let (x 10) (defer (set! x vd)) (set! x x)) x)
DeferSetLet(v0, vd) ==
    Do(<<Def("x", IntForm(v0)),
         Let(<<Sym("x"), IntForm(10)>>,
             <<Defer(<<SetF("x", IntForm(vd))>>), SetF("x", Sym("x"))>>),
         Sym("x")>>)

ExecDeferSetLet ==
    \E v0 \in SetValues, vd \in SetValues :
        /\ v0 # vd
        /\ ExecForm("defer-set", DeferSetLet(v0, vd), IntV(vd), 1)

\* programs of compile_let.rs's tests and their like, with the value the
\* source's tests give for them
ShadowPrograms ==
    {[prog |-> Let(<<Sym("a"), IntForm(10), Sym("a"), Sub(Sym("a"), IntForm(9))>>,
                   <<Sym("a")>>),
      expect |-> IntV(1)],
     [prog |-> Let(<<Sym("a"), IntForm(10), Sym("f"), Fn(<<>>, <<Sym("a")>>),
                     Sym("a"), Sub(Sym("a"), IntForm(9))>>,
                   <<Add(CallF("f", <<>>), Sym("a"))>>),
      expect |-> IntV(11)],
     [prog |-> Let(<<Sym("a"), IntForm(10)>>,
                   <<Let(<<Sym("f"), Fn(<<>>, <<Sym("a")>>),
                           Sym("a"), Sub(Sym("a"), IntForm(9))>>,
                         <<Sub(CallF("f", <<>>), Sym("a"))>>)>>),
      expect |-> IntV(9)]}

ForwardPrograms ==
    {[prog |-> Let(<<Sym("x"), IntForm(10), Sym("y"), Add(Sym("x"), IntForm(10))>>,
                   <<Sym("y")>>),
      expect |-> IntV(20)],
     [prog |-> Let(<<Sym("f"), Fn(<<>>, <<CallF("h", <<>>)>>),
                     Sym("h"), Fn(<<>>, <<IntForm(7)>>)>>,
                   <<CallF("f", <<>>)>>),
      expect |-> IntV(7)],
     [prog |-> Let(<<Sym("h"), Fn(<<>>, <<IntForm(5)>>)>>,
                   <<Let(<<Sym("f"), Fn(<<>>, <<CallF("h", <<>>)>>),
                           Sym("h"), Fn(<<>>, <<IntForm(7)>>)>>,
                         <<CallF("f", <<>>)>>)>>),
      expect |-> IntV(5)]}

ExecShadowProgram ==
    \E p \in ShadowPrograms :
        /\ ~state.tail
        /\ state.defers = 0
        /\ ExecForm("shadow", p.prog, p.expect, 0)

ExecForwardProgram ==
    \E p \in ForwardPrograms :
        /\ ~state.tail
        /\ state.defers = 0
        /\ ExecForm("forward", p.prog, p.expect, 0)

NextLet ==
    \/ MarkTail
    \/ RegisterDefer
    \/ ExecScopedLet
    \/ ExecShadowProgram
    \/ ExecForwardProgram
    \/ ExecDeferLet
    \/ ExecMalformedLet
    \/ ExecSetLet
    \/ ExecDeferSetLet
    \/ RunStep
    \/ RunUnwind

SpecLet == InitLet /\ [][NextLet]_vars


-----------------------------------------------------------------------------
(* What the let forms are checked against *)

CErr == Val("cerr", 0)

RErr == Val("rerr", 0)

Unbound == Val("unbound", 0)

NoLoc == [n \in Names |-> Unbound]

\* the names a binding list binds
TargetsOf(b) == {b[k].s : k \in {j \in 1..Len(b) : j % 2 = 1}}

RECURSIVE RefCompiles(_, _)

\* every symbol of the form is a local in sight: the names of a let are in
\* sight in all of its value expressions and in its body
RefCompiles(e, scope) ==
    CASE e.t = "int" -> TRUE
      [] e.t = "sym" -> e.s \in scope
      [] e.t = "list" /\ e.args[1].s = "let" ->
           /\ \A k \in 1..Len(e.args[2].args) :
                 k % 2 = 0 =>
                     RefCompiles(e.args[2].args[k], scope \cup TargetsOf(e.args[2].args))
           /\ \A k \in 3..Len(e.args) :
                 RefCompiles(e.args[k], scope \cup TargetsOf(e.args[2].args))
      [] OTHER -> \A k \in 2..Len(e.args) : RefCompiles(e.args[k], scope)

RECURSIVE RefEval(_, _, _)

RECURSIVE RefBind(_, _, _, _)

\* the value of a form made of integers, names, + - and let, by the meaning
\* of the forms.  In a let the bindings are made in order; a name the let
\* brings in is there (still without a value) from the start of the let,
\* and with `shadowing` so is a name that an enclosing scope binds already,
\* else that name stands for the enclosing binding until the let has
\* bound it
RefEval(e, loc, shadowing) ==
    CASE e.t = "int" -> IntV(e.v)
      [] e.t = "sym" -> loc[e.s]
      [] e.t = "list" /\ e.args[1].s = "let" ->
           RefEval(e.args[Len(e.args)],
                   RefBind(e.args[2].args, 1,
                           [n \in Names |->
                               IF n \in TargetsOf(e.args[2].args)
                                  /\ (shadowing \/ loc[n] = Unbound)
                               THEN Undefined ELSE loc[n]],
                           shadowing),
                   shadowing)
      [] OTHER ->
           IF RefEval(e.args[2], loc, shadowing).t = "int"
              /\ RefEval(e.args[3], loc, shadowing).t = "int"
           THEN Arith(IF e.args[1].s = "+" THEN "ADD" ELSE "SUB",
                      RefEval(e.args[2], loc, shadowing),
                      RefEval(e.args[3], loc, shadowing))
           ELSE RErr

\* the bindings in order; a binding whose value fails leaves every name failed
RefBind(b, k, loc, shadowing) ==
    IF k > Len(b) THEN loc
    ELSE IF RefEval(b[k + 1], loc, shadowing) = RErr THEN [n \in Names |-> RErr]
    ELSE RefBind(b, k + 2, [loc EXCEPT ![b[k].s] = RefEval(b[k + 1], loc, shadowing)],
                 shadowing)

\* what running the program gives: no chunk, an error, or a value
Expected(prog, shadowing) ==
    IF ~RefCompiles(prog, {}) THEN CErr ELSE RefEval(prog, NoLoc, shadowing)

Finished == phase = "failed" \/ (phase = "compiled" /\ vm.status \in {"done", "error"})

Outcome ==
    IF phase = "failed" THEN CErr
    ELSE IF vm.status = "error" THEN RErr
    ELSE vm.result

\* the instructions of the top-level chunk that store a binding
SetAt == {k \in 1..Len(state.code) : state.code[k].op = "SET"}

\* the innermost let of a generated program
InnerLet(e) ==
    IF e.args[Len(e.args)].t = "list" /\ e.args[Len(e.args)].args[1] = Sym("let")
    THEN e.args[Len(e.args)] ELSE e

\* the let binds one name twice
Rebinds(e) ==
    \E j, k \in 1..Len(e.args[2].args) :
        j < k /\ j % 2 = 1 /\ k % 2 = 1 /\ e.args[2].args[j] = e.args[2].args[k]

\* the let binds a name that the enclosing let of the program binds
RebindsEnclosing(e) ==
    /\ InnerLet(e) # e
    /\ TargetsOf(e.args[2].args) \cap TargetsOf(InnerLet(e).args[2].args) # {}

\* C3: a name bound again in the same let gets a register of its own, its
\* value is compiled while the name still stands for the earlier binding
\* and the name stands for the new binding from then on; the earlier
\* register is not written by the rebinding:
\* (let (a 10, a (- a 9)) a) yields 1
C3_RebindKeepsEarlierRegister ==
    /\ (req.kind = "scoped" /\ Rebinds(InnerLet(req.prog)) /\ phase = "compiled") =>
          \A j, k \in SetAt : j # k => state.code[j].a # state.code[k].a
    /\ (req.kind = "scoped" /\ Rebinds(InnerLet(req.prog)) /\ Finished) =>
          Outcome = Expected(req.prog, FALSE)
    /\ (req.kind = "shadow" /\ Finished) => Outcome = req.expect

\* C3 witness: a let that binds x twice, the second time from x itself,
\* has run to its value
C3_Witness ==
    /\ req.kind = "scoped"
    /\ Rebinds(req.prog)
    /\ req.prog.args[2].args[4] = Sub(Sym("x"), IntForm(9))
    /\ phase = "compiled"
    /\ vm.status = "done"
    /\ vm.result = IntV(1)

\* C7 (as stated): all targets get their registers before any value is
\* compiled, so a name not already bound in the let is in sight in every
\* value expression of the let, earlier ones and its own included, and
\* there it comes before a binding of the same name in an enclosing let;
\* later bindings see the values of earlier ones
C7_NewNameShadowsEnclosing ==
    /\ (req.kind = "scoped" /\ Finished) => Outcome = Expected(req.prog, TRUE)
    /\ (req.kind = "forward" /\ Finished) =>
          Outcome = (IF InnerLet(req.prog) # req.prog THEN IntV(7) ELSE req.expect)

\* C7 (amended): all targets get their registers before any value is
\* compiled, so a name that is new to the scope (bound neither earlier in
\* the let nor by an enclosing let or parameter of the same function) is in
\* sight in every value expression of the let, earlier ones and its own
\* included (fn values bound in one let can call each other); a name that an
\* enclosing let of the same function binds keeps standing for that binding
\* in the value expressions up to and including its own and for the new
\* binding after it; later bindings see the values of earlier ones:
\* (let (x 10 y (+ x 10)) y) yields 20
C7_NewNameInSightOfAllValues ==
    /\ (req.kind = "scoped" /\ Finished) => Outcome = Expected(req.prog, FALSE)
    /\ (req.kind = "forward" /\ Finished) => Outcome = req.expect

\* C7 witness: (let (y 7) (let (x (+ y 1) y 10) x)) has run and answered 8
C7_Witness ==
    /\ req.kind = "scoped"
    /\ RebindsEnclosing(req.prog)
    /\ InnerLet(req.prog).args[2].args = <<Sym("x"), Add(Sym("y"), IntForm(1)),
                                           Sym("y"), IntForm(10)>>
    /\ InnerLet(req.prog).args[3] = Sym("x")
    /\ phase = "compiled"
    /\ vm.status = "done"
    /\ vm.result = IntV(8)

\* the instructions the request added to the top-level chunk
LetEmitted == SubSeq(state.code, req.base + 1, Len(state.code))

DfrpopAt == {k \in 1..Len(LetEmitted) : LetEmitted[k].op = "DFRPOP"}

\* C4: every defer registered in a let runs exactly once per run of the
\* let, after the let's body, newest first among the defers of the let, on
\* normal and on error exit: one DFRPOP per defer of the let is emitted
\* after the body and state.defers is back at its value before the let, so
\* that the enclosing scope does not run the defer again
C4_LetDefersRunOnceLifo ==
    req.kind \in {"defers", "defers-error"} =>
        /\ phase = "compiled"
        /\ Cardinality(DfrpopAt) = req.ndefer
        /\ state.defers = req.defers
        /\ Len(vm.dlog) <= req.ndefer
        /\ \A j, k \in 1..Len(vm.dlog) : j # k => vm.dlog[j] # vm.dlog[k]
        /\ vm.status \in {"done", "error"} =>
              /\ vm.status = (IF req.kind = "defers" THEN "done" ELSE "error")
              /\ Len(vm.dlog) = req.ndefer
              /\ vm.trace = DeferNotes(req.expect.v, req.expect.t = "nested",
                                       req.kind = "defers-error")

\* C4 witness: a let with two defers around a let with one, entered with a
\* defer of the enclosing scope pending, fails in its body and has run its
\* defers newest first
C4_Witness ==
    /\ req.kind = "defers-error"
    /\ req.defers > 0
    /\ req.ndefer = 3
    /\ vm.status = "error"
    /\ vm.trace = <<4, 8, 5, 2, 1>>

\* the value the program defines x with, and the value its set! assigns
DefValue(prog) == prog.args[2].args[3].v

SetValue(prog) == prog.args[3].args[3].args[3].v

\* the top-level chunk is about to return
AtRet ==
    /\ phase = "compiled"
    /\ vm.status = "run"
    /\ Len(vm.frames) = 1
    /\ state.code[TopFrame(vm).ip].op = "RET"

\* C5 (as stated): (do (def x 1) (let (x 10) (defer (set! x 5)) (set! x x)) x)
\* yields 5
C5_DeferSetReachesGlobal ==
    (req.prog = DeferSetLet(1, 5) /\ Finished) => Outcome = IntV(5)

\* C5 (amended): (do (def x 1) (let (x 10) (defer (set! x 5)) (set! x x)) x)
\* yields 1: the defer has run when the let is left, its set! assigns the
\* let's own x, and reading x in the enclosing scope gives the global's value
C5_DeferSetStaysLocal ==
    req.kind = "defer-set" =>
        /\ phase = "compiled"
        /\ AtRet => Len(vm.dlog) = 1 /\ vm.globals[1 + 1] = IntV(DefValue(req.prog))
        /\ Finished => Outcome = IntV(DefValue(req.prog))

\* C5 witness: the program of the claim has run and answered 1
C5_Witness ==
    /\ req.prog = DeferSetLet(1, 5)
    /\ vm.status = "done"
    /\ Len(vm.dlog) = 1
    /\ vm.result = IntV(1)

\* C6: set! on a name a let binds assigns the let's binding only: the body
\* reads the assigned value afterwards, a global of the same name has its
\* old value after the let (e.g. (do (def x 3) (let (x 10) (set! x 1)) x)
\* yields 3), and a binding computed from the old value keeps its value
C6_SetAssignsLetBinding ==
    /\ req.kind \in {"set-after", "set-x", "set-y"} => phase = "compiled"
    /\ (req.kind = "set-after" /\ Finished) => Outcome = IntV(DefValue(req.prog))
    /\ (req.kind = "set-x" /\ Finished) => Outcome = IntV(SetValue(req.prog))
    /\ (req.kind = "set-y" /\ Finished) => Outcome = IntV(20)
    /\ (req.kind \in {"set-after", "set-x", "set-y"} /\ AtRet) =>
          vm.globals[1 + 1] = IntV(DefValue(req.prog))

\* C6 witness: the global x of value 5 is read back after a let set its own
\* x to 1
C6_Witness ==
    /\ req.kind = "set-after"
    /\ DefValue(req.prog) = 5
    /\ SetValue(req.prog) = 1
    /\ vm.status = "done"
    /\ vm.result = IntV(5)

\* C8: a let with no binding list, a target without a value, a target that
\* is no symbol, vector or map, or a value naming a symbol that is neither
\* local nor global gives a compile error and no chunk; on that path
\* compile_let has put state.tail, state.symbols and state.defers back
C8_MalformedLetIsCompileError ==
    req.kind = "malformed" =>
        /\ phase = "failed"
        /\ Failed(state)
        /\ state.err = req.expect.t
        /\ vm = RootVm
        /\ state.tail = req.tail
        /\ state.syms = req.syms
        /\ state.count = req.count
        /\ state.defers = req.defers

\* C8 witness: in tail position with a defer pending, a let that registers
\* a defer and then holds a let with a target without a value was refused
C8_Witness ==
    /\ req.kind = "malformed"
    /\ req.tail
    /\ req.defers > 0
    /\ req.prog = Let(<<Sym("x"), IntForm(10)>>,
                      <<Defer(<<G(1)>>), Let(<<Sym("y")>>, <<>>)>>)
    /\ phase = "failed"
    /\ state.err = "let: symbol must have a value"

-----------------------------------------------------------------------------
(* fn forms with optional parameters, compiled and entered: compile_fn.rs at work *)

\* most elements in a generated parameter list
MaxParamTokens == 4

\* most arguments a compiled function is entered with
MaxSupplied == 2

\* the elements of the generated parameter lists
ParamTokens ==
    {Sym("a"), Sym("b"), Sym("%"), Kw(":="), IntForm(5), G(3), Vec(<<Sym("c")>>)}

ParamTokenLists == UNION {[1..n -> ParamTokens] : n \in 0..MaxParamTokens}

\* the body of the generated functions
FnBody == <<IntForm(0)>>

\* the value argument k is supplied with
Supplied(k) == IntV(20 + k)

NoFnReq ==
    [kind |-> "", params |-> <<>>, opt_comps |-> <<>>, destructures |-> 0,
     lambda |-> 0, supplied |-> 0]

InitFn ==
    /\ state = RootState
    /\ req = NoFnReq
    /\ phase = "scope"
    /\ vm = RootVm

\* (fn (params..) 0) compiled into register 1 of the top-level chunk
CompileFn ==
    \E params \in ParamTokenLists :
        /\ phase = "scope"
        /\ state' = compile_fn(state, Vec(params), FnBody, 1, FALSE)
        /\ req' = [kind |-> "fn", params |-> params,
                   opt_comps |-> mk_state(state, Vec(params)).opt_comps,
                   destructures |-> Len(mk_state(state, Vec(params)).destructures),
                   lambda |-> Len(state'.heap), supplied |-> 0]
        /\ phase' = IF Failed(state') THEN "failed" ELSE "fn-compiled"
        /\ UNCHANGED vm

\* the function is called with n arguments
EnterFn ==
    \E n \in 0..MaxSupplied :
        /\ phase = "fn-compiled"
        /\ req.destructures = 0
        /\ vm' = EnterFrame(state, vm, Val("lambda", req.lambda),
                            [k \in 1..n |-> Supplied(k)], -1, "run")
        /\ req' = [req EXCEPT !.supplied = n]
        /\ phase' = "compiled"
        /\ UNCHANGED state

MaxPatternParams == 2

\* the elements of the parameter lists made of names and patterns: a name,
\* the optional marker, [c] and {c :a}
PatternTokens ==
    {Sym("a"), Sym("%"), Vec(<<Sym("c")>>), Map(<<Sym("c"), Kw(":a")>>)}

PatternParamLists == UNION {[1..n -> PatternTokens] : n \in 1..MaxPatternParams}

\* (fn (params..) 0) with destructuring patterns among the parameters
CompileFnPattern ==
    \E params \in PatternParamLists :
        /\ phase = "scope"
        /\ \E k \in 1..Len(params) : params[k].t \in {"vec", "map"}
        /\ state' = compile_fn(state, Vec(params), FnBody, 1, FALSE)
        /\ req' = [kind |-> "fn", params |-> params,
                   opt_comps |-> mk_state(state, Vec(params)).opt_comps,
                   destructures |-> Len(mk_state(state, Vec(params)).destructures),
                   lambda |-> Len(state'.heap), supplied |-> 0]
        /\ phase' = IF Failed(state') THEN "failed" ELSE "fn-compiled"
        /\ UNCHANGED vm

NextFn ==
    \/ CompileFn
    \/ CompileFnPattern
    \/ EnterFn
    \/ RunStep
    \/ RunUnwind

SpecFn == InitFn /\ [][NextFn]_vars

-----------------------------------------------------------------------------
(* What the fn forms are checked against *)

\* the chunk of the compiled function
FnChunk == state.heap[req.lambda]

RECURSIVE BlocksOk(_, _, _, _, _)

\* from pos on the chunk holds, for the optionals i .. n-1 in turn, JMPNU on
\* register args+i+1, the jump offset, the code of the default and last the
\* MOV into that register, the offset reaching just past that MOV; after
\* the last of them no JMPNU follows
BlocksOk(c, args, i, pos, n) ==
    IF i >= n THEN \A k \in pos..Len(c) : c[k].op # "JMPNU"
    ELSE /\ pos + 1 <= Len(c)
         /\ c[pos] = Ins("JMPNU", args + i + 1, 0, 0)
         /\ c[pos + 1].op = "OFFSET"
         /\ c[pos + 1].a >= 1
         /\ pos + 1 + c[pos + 1].a <= Len(c)
         /\ c[pos + 1 + c[pos + 1].a].op = "MOV"
         /\ c[pos + 1 + c[pos + 1].a].a = args + i + 1
         /\ \A k \in (pos + 2)..(pos + c[pos + 1].a) : c[k].op \notin {"JMPNU", "OFFSET"}
         /\ BlocksOk(c, args, i + 1, pos + 2 + c[pos + 1].a, n)

\* the function's frame has run its parameter code and body and is about
\* to return
AtSret ==
    /\ phase = "compiled"
    /\ req.kind = "fn"
    /\ vm.status = "run"
    /\ Len(vm.frames) = 1
    /\ FnChunk.code[TopFrame(vm).ip].op = "SRET"

\* the value of a default that names no parameter
DefaultValue(e) ==
    IF e.t = "list" THEN BuiltinApply(<<IntV(e.args[2].v)>>)
    ELSE IF e.t = "int" THEN IntV(e.v)
    ELSE IF e.t = "nil" THEN Nil
    ELSE Val(e.t, e.v)

RECURSIVE DefaultNotes(_, _, _, _)

\* what the builtin notes when the defaults of the optionals that were not
\* supplied, and only those, are evaluated in order
DefaultNotes(oc, i, args, supplied) ==
    IF i >= Len(oc) THEN <<>>
    ELSE (IF args + i + 1 > supplied /\ oc[i + 1].t = "list"
          THEN <<oc[i + 1].args[2].v>> ELSE <<>>)
         \o DefaultNotes(oc, i + 1, args, supplied)

\* C9: for the i-th optional parameter the compiler emits JMPNU on register
\* args+i+1 with an offset that skips exactly the default's code and the MOV
\* into that register, so the default is evaluated and stored if and only if
\* the argument was not supplied, and a supplied argument is never
\* overwritten by its default
C9_DefaultOnlyWhenNotSupplied ==
    /\ (req.kind = "fn" /\ phase \in {"fn-compiled", "compiled"}) =>
          BlocksOk(FnChunk.code, FnChunk.args, 0, 1, Len(req.opt_comps))
    /\ AtSret =>
          /\ vm.trace = DefaultNotes(req.opt_comps, 0, FnChunk.args, req.supplied)
          /\ \A i \in 0..(FnChunk.opt_args - 1) :
                IF FnChunk.args + i + 1 <= req.supplied
                THEN RegsNow[FnChunk.args + i + 1] = Supplied(FnChunk.args + i + 1)
                ELSE req.opt_comps[i + 1].t # "sym" =>
                        RegsNow[FnChunk.args + i + 1] = DefaultValue(req.opt_comps[i + 1])

\* C9 witness: (fn (% a := (g 3)) 0) entered without an argument is about to
\* return, the default evaluated once and its value stored in a
C9_Witness ==
    /\ AtSret
    /\ req.params = <<Sym("%"), Sym("a"), Kw(":="), G(3)>>
    /\ FnChunk.code[1] = Ins("JMPNU", 1, 0, 0)
    /\ req.supplied = 0
    /\ RegsNow[1] = IntV(103)
    /\ vm.trace = <<3>>

\* := stands in the list with no % before it
NumEqWithoutOptional(params) ==
    \E k \in 1..Len(params) :
        /\ IsNumEq(params[k])
        /\ \A j \in 1..(k - 1) : params[j] # Sym("%")

\* := is immediately followed by another :=
NumEqTwice(params) ==
    \E k \in 1..(Len(params) - 1) : IsNumEq(params[k]) /\ IsNumEq(params[k + 1])

\* an element that is no symbol, no :=, no default after := and no vector
OtherElement(params) ==
    \E k \in 1..Len(params) :
        /\ params[k].t \notin {"sym", "vec"}
        /\ ~IsNumEq(params[k])
        /\ ~(k > 1 /\ IsNumEq(params[k - 1]))

\* C10: a parameter list with := and no % before it, or with := right after
\* :=, gives a compile error; an element that is not a symbol, :=, a default
\* after := or a vector pattern gives 'invalid args, must be symbols'
C10_ParameterListErrors ==
    req.kind = "fn" =>
        /\ NumEqWithoutOptional(req.params) => phase = "failed"
        /\ NumEqTwice(req.params) => phase = "failed"
        /\ (OtherElement(req.params) /\ ~NumEqWithoutOptional(req.params)
            /\ ~NumEqTwice(req.params)) =>
              state.err = "invalid args, must be symbols"

\* element k of the list is a default: it stands right after a := that is
\* not itself a default
RECURSIVE IsDefaultAt(_, _)
IsDefaultAt(params, k) ==
    /\ k > 1
    /\ IsNumEq(params[k - 1])
    /\ ~IsDefaultAt(params, k - 1)

Markers == {Sym("%"), Sym("&")}

\* the parameter symbols and vector patterns of the list, in order
ParamPositions(params) ==
    {k \in 1..Len(params) :
        /\ params[k].t \in {"sym", "vec"}
        /\ params[k] \notin Markers
        /\ ~IsDefaultAt(params, k)}

\* the parameters after the optional marker
OptionalPositions(params) ==
    {k \in ParamPositions(params) :
        \E j \in 1..(k - 1) : params[j] = Sym("%") /\ ~IsDefaultAt(params, j)}

\* the position of the i-th optional parameter
OptionalAt(params, i) ==
    CHOOSE k \in OptionalPositions(params) :
        Cardinality({j \in OptionalPositions(params) : j <= k}) = i

\* the default written with := after the parameter at position k, else Nil
DefaultAfter(params, k) ==
    IF k + 2 <= Len(params) /\ IsNumEq(params[k + 1]) THEN params[k + 2]
    ELSE NilForm

\* what mk_state returns for the compiled parameter list
FnState == mk_state(RootState, Vec(req.params))

\* a := that is not a default has an optional parameter right before it
DefaultsFollowParameters(params) ==
    \A k \in 1..Len(params) :
        (IsNumEq(params[k]) /\ ~IsDefaultAt(params, k)) =>
            (k - 1) \in OptionalPositions(params)

OptCompsMatch ==
    /\ Len(FnState.opt_comps) = FnState.ns.opt_args
    /\ \A i \in 1..Len(FnState.opt_comps) :
          /\ i <= Cardinality(OptionalPositions(req.params))
          /\ FnState.opt_comps[i] =
                DefaultAfter(req.params, OptionalAt(req.params, i))

ParamsCounted ==
    FnState.ns.args + FnState.ns.opt_args =
        Cardinality(ParamPositions(req.params))

JmpnuInOptionals ==
    phase # "failed" =>
        \A k \in 1..Len(FnChunk.code) :
            FnChunk.code[k].op = "JMPNU" =>
                FnChunk.code[k].a \in
                    (FnChunk.args + 1)..(FnChunk.args + FnChunk.opt_args)

MkStateOk == req.kind = "fn" /\ ~Failed(FnState.ns)

\* C30: after mk_state succeeds the list of default expressions has opt_args
\* entries, entry i being the default written with := after the i-th
\* optional parameter, or Nil; args + opt_args counts the parameter symbols
\* and vector patterns; every JMPNU of the function is on a register in
\* args+1 ..= args+opt_args.
C30_OptCompsMatchOptArgs ==
    MkStateOk => OptCompsMatch /\ ParamsCounted /\ JmpnuInOptionals

\* what does hold: the parameters are counted so for every accepted list,
\* and the defaults match when each := follows an optional parameter
C30_OptCompsWhenDefaultsFollowParameters ==
    MkStateOk =>
        /\ ParamsCounted
        /\ Len(FnState.opt_comps) >= FnState.ns.opt_args
        /\ DefaultsFollowParameters(req.params) =>
              OptCompsMatch /\ JmpnuInOptionals

\* (fn (% := 5 a) 0): one optional parameter and two defaults, the second
\* JMPNU on a register past the parameters
C30_DefaultBeforeParameter ==
    /\ phase = "fn-compiled"
    /\ req.params = <<Sym("%"), Kw(":="), IntForm(5), Sym("a")>>
    /\ FnChunk.opt_args = 1
    /\ Len(req.opt_comps) = 2
    /\ \E k \in 1..Len(FnChunk.code) : FnChunk.code[k] = Ins("JMPNU", 2, 0, 0)

\* the parameters of the list: every element but the optional marker
ParamsAt(params) == {k \in 1..Len(params) : params[k] # Sym("%")}

\* the parameters that stand before the first optional marker
RequiredAt(params) ==
    {k \in ParamsAt(params) : \A j \in 1..k : params[j] # Sym("%")}

\* C11: in a fn parameter list a nested vector and a nested map are both
\* taken as destructuring patterns: each reserves one parameter register,
\* counted in args, or in opt_args after %, and is recorded for lowering
C11_VectorAndMapPatterns ==
    (req.kind = "fn" /\ req.params \in PatternParamLists) =>
        /\ phase # "failed"
        /\ FnChunk.args = Cardinality(RequiredAt(req.params))
        /\ FnChunk.opt_args = Cardinality(ParamsAt(req.params) \ RequiredAt(req.params))
        /\ req.destructures =
              Cardinality({k \in 1..Len(req.params) : req.params[k].t \in {"vec", "map"}})

\* the same for the lists whose patterns are all vectors
C11_VectorPatternsOnly ==
    (req.kind = "fn" /\ req.params \in PatternParamLists
     /\ \A k \in 1..Len(req.params) : req.params[k].t # "map") =>
        /\ phase # "failed"
        /\ FnChunk.args = Cardinality(RequiredAt(req.params))
        /\ FnChunk.opt_args = Cardinality(ParamsAt(req.params) \ RequiredAt(req.params))
        /\ req.destructures =
              Cardinality({k \in 1..Len(req.params) : req.params[k].t = "vec"})

-----------------------------------------------------------------------------
(* Properties: builtins/src/lib.rs get_prop / set_prop over vm/src/value.rs
   Globals, and the :macro mark of compile_fn *)

\* the interner: one id for each distinct string, whatever it is used for
Intern(name) ==
    CASE name = "x" -> 1
      [] name = "m" -> 2
      [] name = "u" -> 3
      [] name = "doc" -> 4
      [] name = "macro" -> 5

\* Value::Symbol(Interned)
SymbolV(name) == Val("symbol", Intern(name))

\* Value::Keyword(Interned): the interned string is the name after the colon
\* (display_value writes ":" before it)
KeywordV(name) == Val("keyword", Intern(name))

\* no entry in a HashMap
Absent == Val("absent", 0)

PropKeyIds == {Intern("doc"), Intern("macro")}

NoProps == [k \in PropKeyIds |-> Absent]

GlobalSlots == {1, 2}

\* the heap objects a macro definition leaves in a global
HeapObjects == {Val("lambda", 1), Val("closure", 1)}

\* Globals with the slots of x and m reserved, (def x 1) done; the heap
\* objects' attribute tables beside it
PropVm ==
    [objects |-> [i \in GlobalSlots |-> IF i = 1 THEN IntV(1) ELSE Undefined],
     props |-> [i \in GlobalSlots |-> NoProps],
     heap_props |-> [o \in HeapObjects |-> NoProps]]

\* Globals::get_property: Some(value) or None
Globals_get_property(g, global, prop) == g.props[global][prop]

\* Globals::set_property with a fresh map made on every call
Globals_set_property_fresh(g, global, prop, value) ==
    [g EXCEPT !.props[global] = [NoProps EXCEPT ![prop] = value]]

\* Globals::set_property: insert into the global's map, made if missing
Globals_set_property(g, global, prop, value) ==
    [g EXCEPT !.props[global][prop] = value]

\* Vm::global_intern_slot: x and m have a global slot, u has none (0)
global_intern_slot(si) ==
    IF si = Intern("x") THEN 1 ELSE IF si = Intern("m") THEN 2 ELSE 0

\* Vm::get_heap_property_interned: the attribute table of the heap object
get_heap_property_interned(g, obj, key) ==
    IF obj \in HeapObjects THEN g.heap_props[obj][key] ELSE Absent

\* Vm::set_heap_property_interned
set_heap_property_interned(g, obj, key, value) ==
    IF obj \in HeapObjects THEN [g EXCEPT !.heap_props[obj][key] = value] ELSE g

\* .unwrap_or(Value::Nil)
unwrap_or_nil(v) == IF v = Absent THEN Nil ELSE v

\* what a builtin hands back: Ok(val) or Err(VMError::new_vm(err)), and
\* the machine after it
PropResult(val, err, g) == [val |-> val, err |-> err, g |-> g]

IsPropKey(v) == v.t \in {"keyword", "symbol"}

\* get-prop that looks in the heap object's table whatever the operand is
get_prop_heap(g, registers) ==
    IF Len(registers) # 2
    THEN PropResult(Absent, "get-prop: Invalid arguments (object symbol)", g)
    ELSE IF ~IsPropKey(registers[2])
    THEN PropResult(Absent, "get-prop: key must be a keywork or symbol", g)
    ELSE PropResult(unwrap_or_nil(get_heap_property_interned(
                        g, registers[1], registers[2].v)),
                    "", g)

get_prop(g, registers) ==
    IF Len(registers) # 2
    THEN PropResult(Absent, "get-prop: Invalid arguments (object symbol)", g)
    ELSE IF ~IsPropKey(registers[2])
    THEN PropResult(Absent, "get-prop: key must be a keywork or symbol", g)
    ELSE IF registers[1].t = "symbol"
    THEN IF global_intern_slot(registers[1].v) # 0
         THEN PropResult(unwrap_or_nil(Globals_get_property(
                             g, global_intern_slot(registers[1].v), registers[2].v)),
                         "", g)
         ELSE PropResult(Absent, "get-prop: Not a heap object or global symbol", g)
    ELSE PropResult(unwrap_or_nil(get_heap_property_interned(
                        g, registers[1], registers[2].v)),
                    "", g)

set_prop(g, registers) ==
    IF Len(registers) # 3
    THEN PropResult(Absent, "set-prop: Invalid arguments (object symbol value)", g)
    ELSE IF ~IsPropKey(registers[2])
    THEN PropResult(Absent, "set-prop: key must be a keyword or symbol", g)
    ELSE IF registers[1].t = "symbol"
    THEN IF global_intern_slot(registers[1].v) # 0
         THEN PropResult(registers[3], "",
                         Globals_set_property(g, global_intern_slot(registers[1].v),
                                              registers[2].v, registers[3]))
         ELSE PropResult(Absent, "set-prop: Not a heap object or global symbol", g)
    ELSE PropResult(registers[3], "",
                    set_heap_property_interned(g, registers[1], registers[2].v,
                                               registers[3]))

MaxPropOps == 2

\* the keys handed to the builtins: :doc, doc, :macro and a number
PropKeys == {KeywordV("doc"), SymbolV("doc"), KeywordV("macro"), IntV(7)}

\* the keys among them that are keywords or symbols
KeyVals == {k \in PropKeys : IsPropKey(k)}

PropValues == {IntV(1), IntV(2)}

\* the objects handed to the builtins: the symbols x, m (with a global) and
\* u (without), and the value of the global m once it is defined
PropObjects(g) ==
    {SymbolV("x"), SymbolV("m"), SymbolV("u")} \cup ({g.objects[2]} \cap HeapObjects)

GetPropCalls(g) ==
    {<<o, k>> : o \in PropObjects(g), k \in PropKeys} \cup {<<SymbolV("x")>>}

SetPropCalls(g) ==
    {<<o, k, v>> : o \in PropObjects(g), k \in PropKeys, v \in PropValues}
        \cup {<<SymbolV("x"), KeywordV("doc")>>}

\* the call was on a symbol with a global slot and went through
OnGlobal(registers, err) ==
    /\ err = ""
    /\ registers[1].t = "symbol"
    /\ global_intern_slot(registers[1].v) # 0

\* the last call with what it answered, the machine before it, and what
\* set-prop stored last per global and key, told apart by the key as
\* written (byvalue) and by its interned name (byname)
NoPropReq ==
    [op |-> "", registers |-> <<>>, val |-> Absent, err |-> "",
     byvalue |-> [i \in GlobalSlots |-> [k \in KeyVals |-> Absent]],
     byname |-> [i \in GlobalSlots |-> NoProps],
     n |-> 0, before |-> PropVm, macro |-> ""]

\* a top-level scope, or one inside a let that binds y
InitProps ==
    /\ state \in {RootState, insert(RootState, "y")}
    /\ req = NoPropReq
    /\ phase = "props"
    /\ vm = PropVm

\* (def m (macro (a) body)): compile_fn with is_macro, then the value,
\* a lambda or the closure CLOSE makes of it, is stored in the global m
DefMacro ==
    \E body \in {Sym("a")} \cup (IF contains_symbol(state, "y") THEN {Sym("y")} ELSE {}) :
        /\ phase = "props"
        /\ vm.objects[2] = Undefined
        /\ state' = compile_fn(state, Vec(<<Sym("a")>>), <<body>>, 1, TRUE)
        /\ vm' = [vm EXCEPT
                     !.objects[2] =
                         IF state'.code[Len(state'.code)].op = "CLOSE"
                         THEN Val("closure", 1) ELSE Val("lambda", Len(state'.heap)),
                     !.heap_props[Val("lambda", Len(state'.heap))][Intern("macro")] =
                         IF state'.heap[Len(state'.heap)].macro THEN True ELSE @]
        /\ req' = [req EXCEPT !.op = "macro", !.registers = <<>>, !.val = Absent,
                              !.err = "", !.before = vm,
                              !.macro = IF state'.code[Len(state'.code)].op = "CLOSE"
                                        THEN "closure" ELSE "lambda"]
        /\ UNCHANGED phase

SetProp ==
    \E registers \in SetPropCalls(vm) :
        /\ phase = "props"
        /\ req.n < MaxPropOps
        /\ vm' = set_prop(vm, registers).g
        /\ req' = [req EXCEPT
                      !.op = "set-prop", !.registers = registers,
                      !.val = set_prop(vm, registers).val,
                      !.err = set_prop(vm, registers).err,
                      !.before = vm, !.n = @ + 1,
                      !.byvalue = IF OnGlobal(registers, set_prop(vm, registers).err)
                                  THEN [@ EXCEPT ![global_intern_slot(registers[1].v)]
                                                  [registers[2]] = registers[3]]
                                  ELSE @,
                      !.byname = IF OnGlobal(registers, set_prop(vm, registers).err)
                                 THEN [@ EXCEPT ![global_intern_slot(registers[1].v)]
                                                 [registers[2].v] = registers[3]]
                                 ELSE @]
        /\ UNCHANGED <<state, phase>>

GetProp ==
    \E registers \in GetPropCalls(vm) :
        /\ phase = "props"
        /\ vm' = get_prop(vm, registers).g
        /\ req' = [req EXCEPT !.op = "get-prop", !.registers = registers,
                              !.val = get_prop(vm, registers).val,
                              !.err = get_prop(vm, registers).err,
                              !.before = vm]
        /\ UNCHANGED <<state, phase>>

NextProps ==
    \/ DefMacro
    \/ SetProp
    \/ GetProp

SpecProps == InitProps /\ [][NextProps]_vars

-----------------------------------------------------------------------------
(* What the property builtins are checked against *)

\* C12: after a macro is defined, get-prop of :macro on the global's symbol
\* answers true, for a macro that captures nothing (Lambda) and for one that
\* captures (Closure)
C12_MacroMarkOnGlobal ==
    (/\ req.op = "get-prop"
     /\ req.n = 0
     /\ vm.objects[2] \in HeapObjects
     /\ req.registers = <<SymbolV("m"), KeywordV("macro")>>) => req.val = True

\* get-prop on the global symbols, asked of machine g for slot i and key k
PropOf(g, i, k) ==
    get_prop(g, <<IF i = 1 THEN SymbolV("x") ELSE SymbolV("m"), k>>).val

\* C20 (as stated): set-prop s k v answers v, a following get-prop s k
\* answers v until the next set-prop on the same s and k; set-prop leaves
\* every other global's properties and every other key of s as they were
\* and does not change the global's value; a key never set answers Nil
C20_PropertyRoundTripByKey ==
    /\ (req.op = "set-prop" /\ OnGlobal(req.registers, req.err)) =>
          /\ req.val = req.registers[3]
          /\ vm.objects = req.before.objects
          /\ \A i \in GlobalSlots, k \in KeyVals :
                (i # global_intern_slot(req.registers[1].v) \/ k # req.registers[2]) =>
                    PropOf(vm, i, k) = PropOf(req.before, i, k)
    /\ (req.op = "get-prop" /\ OnGlobal(req.registers, req.err)) =>
          req.val = unwrap_or_nil(
                        req.byvalue[global_intern_slot(req.registers[1].v)][req.registers[2]])

\* C20 (amended): a property key is the interned name of the keyword or
\* symbol given, so :k and k are one key. set-prop s k v answers v, a
\* following get-prop s k' with k' of the same name answers v until the next
\* set-prop on s and that name; set-prop leaves every other global's
\* properties and the keys of s of every other name as they were and does
\* not change the global's value; a name never set answers Nil
C20_PropertyRoundTripByName ==
    /\ (req.op = "set-prop" /\ OnGlobal(req.registers, req.err)) =>
          /\ req.val = req.registers[3]
          /\ vm.objects = req.before.objects
          /\ \A i \in GlobalSlots, k \in KeyVals :
                (i # global_intern_slot(req.registers[1].v) \/ k.v # req.registers[2].v) =>
                    PropOf(vm, i, k) = PropOf(req.before, i, k)
          /\ \A k \in KeyVals :
                k.v = req.registers[2].v =>
                    PropOf(vm, global_intern_slot(req.registers[1].v), k) = req.registers[3]
    /\ (req.op = "get-prop" /\ OnGlobal(req.registers, req.err)) =>
          /\ vm = req.before
          /\ req.val = unwrap_or_nil(
                           req.byname[global_intern_slot(req.registers[1].v)][req.registers[2].v])

\* C20 witness: after (set-prop 'x :doc ..) twice, or once beside a
\* set-prop of :macro, get-prop 'x 'doc answers the 2 stored last while
\* :macro of x and the properties of m are as they were
C20_Witness ==
    /\ req.op = "get-prop"
    /\ req.registers = <<SymbolV("x"), SymbolV("doc")>>
    /\ req.err = ""
    /\ req.n = 2
    /\ req.val = IntV(2)
    /\ req.byvalue[1][KeywordV("doc")] = IntV(2)
    /\ req.byvalue[1][SymbolV("doc")] = Absent
    /\ req.byname[1][Intern("macro")] = IntV(1)

\* the last call was a get-prop or set-prop with the right number of
\* operands and a keyword or symbol as key
PropCall ==
    /\ req.op \in {"get-prop", "set-prop"}
    /\ Len(req.registers) = (IF req.op = "get-prop" THEN 2 ELSE 3)
    /\ IsPropKey(req.registers[2])

\* its operand is a symbol that has a global slot
GlobalOperand ==
    req.registers[1].t = "symbol" /\ global_intern_slot(req.registers[1].v) # 0

\* the call went to the globals' attribute table and nowhere else
RoutedToGlobals ==
    /\ req.err = ""
    /\ vm.heap_props = req.before.heap_props
    /\ vm.objects = req.before.objects
    /\ IF req.op = "get-prop"
       THEN /\ vm = req.before
            /\ req.val = unwrap_or_nil(
                   req.before.props[global_intern_slot(req.registers[1].v)]
                                   [req.registers[2].v])
       ELSE /\ req.val = req.registers[3]
            /\ vm.props =
                   [req.before.props EXCEPT
                       ![global_intern_slot(req.registers[1].v)][req.registers[2].v] =
                           req.registers[3]]

\* the call went to the heap object's attribute table and nowhere else; an
\* operand with no table answers Nil to get-prop
RoutedToHeap ==
    /\ req.err = ""
    /\ vm.props = req.before.props
    /\ vm.objects = req.before.objects
    /\ IF req.op = "get-prop"
       THEN /\ vm = req.before
            /\ req.val = IF req.registers[1] \in HeapObjects
                          THEN unwrap_or_nil(
                                   req.before.heap_props[req.registers[1]]
                                                        [req.registers[2].v])
                          ELSE Nil
       ELSE /\ req.val = req.registers[3]
            /\ vm.heap_props =
                   IF req.registers[1] \in HeapObjects
                   THEN [req.before.heap_props EXCEPT
                            ![req.registers[1]][req.registers[2].v] = req.registers[3]]
                   ELSE req.before.heap_props

\* the call was refused and nothing changed
RefusedNoGlobal ==
    /\ req.err = (IF req.op = "get-prop"
                  THEN "get-prop: Not a heap object or global symbol"
                  ELSE "set-prop: Not a heap object or global symbol")
    /\ vm = req.before

\* C21 (as stated): a symbol operand with a global slot is routed to the
\* globals' attribute table; every other operand, a symbol with no global
\* slot included, to the heap object's attribute table, get-prop answering
\* Nil for an unknown property rather than an error
C21_RoutedGlobalElseHeap ==
    PropCall => IF GlobalOperand THEN RoutedToGlobals ELSE RoutedToHeap

\* C21 (amended): a symbol operand with a global slot is routed to the
\* globals' attribute table; a symbol with no global slot is refused with
\* the error "Not a heap object or global symbol" and nothing changes;
\* every operand that is not a symbol is routed to the heap object's
\* attribute table, get-prop answering Nil for an unknown property
C21_RoutedGlobalHeapOrRefused ==
    PropCall =>
        IF GlobalOperand THEN RoutedToGlobals
        ELSE IF req.registers[1].t = "symbol" THEN RefusedNoGlobal
        ELSE RoutedToHeap

\* C21 witness: get-prop on the symbol x answers what set-prop stored in
\* the globals' table, while the macro's heap object keeps its own mark
C21_Witness ==
    /\ PropCall
    /\ req.op = "get-prop"
    /\ GlobalOperand
    /\ req.val = IntV(2)
    /\ vm.objects[2] \in HeapObjects
    /\ \E o \in HeapObjects : vm.heap_props[o][Intern("macro")] = True
    /\ req.n = 2

(***************************************************************************)
(* Cons cells: LIST, APND, XAR and XDR (vm/src/vm/cons.rs), with the pair   *)
(* and list-view accessors of core_types/src/value.rs                      *)
(***************************************************************************)

PairV(h) == Val("pair", h)

\* Value::List(h, start): a view of the heap vector h from index start; the
\* machines below hold one vector, so the handle is left out of the value
ListV(start) == Val("list", start)

BoxV(h) == Val("box", h)

U16Max == 65535

NoError == [kind |-> "", msg |-> ""]

new_vm(msg) == [kind |-> "vm", msg |-> msg]

new_heap(msg) == [kind |-> "heap", msg |-> msg]

\* a heap vector of len elements; element i is IntV(base + i)
HeapVector(len, base) == [len |-> len, base |-> base]

vector_at(vec, i) == IntV(vec.base + i)

\* start_u32 + 1 on a u16: past U16Max the build with overflow checks panics
\* and the build without them wraps to 0
u16_succ(start, overflow_checks) ==
    IF start + 1 <= U16Max THEN [v |-> start + 1, panic |-> FALSE]
    ELSE IF overflow_checks THEN [v |-> 0, panic |-> TRUE]
    ELSE [v |-> 0, panic |-> FALSE]

\* Value::get_pair: (car, cdr) of a Pair or of a List view
get_pair(v, x) ==
    IF x.t = "pair"
    THEN [some |-> TRUE, car |-> v.pairs[x.v].car, cdr |-> v.pairs[x.v].cdr,
          panic |-> FALSE]
    ELSE IF x.t = "list"
    THEN [some |-> TRUE,
          car |-> IF x.v < v.vector.len THEN vector_at(v.vector, x.v) ELSE Nil,
          cdr |-> IF x.v + 1 < v.vector.len
                  THEN ListV(u16_succ(x.v, v.overflow_checks).v)
                  ELSE Nil,
          panic |-> x.v + 1 < v.vector.len
                    /\ u16_succ(x.v, v.overflow_checks).panic]
    ELSE [some |-> FALSE, car |-> Nil, cdr |-> Nil, panic |-> FALSE]

\* get_reg_unref!: the register's value, read through an indirection cell
get_reg_raw(v, i) == v.regs[i]

get_reg_unref(v, i) == Unref(v, v.regs[i])

\* Vm::set_register: either the value replaces the register, or, when the
\* register holds an indirection cell, it is written through the cell
set_register(v, idx, val, through) ==
    IF through /\ v.regs[idx].t = "box"
    THEN [v EXCEPT !.boxes[v.regs[idx].v] = val]
    ELSE [v EXCEPT !.regs[idx] = val]

alloc_pair(v, car, cdr) ==
    [v EXCEPT !.pairs = Append(@, [car |-> car, cdr |-> cdr])]

\* every pair is allocated with a Nil cdr: the pairs are not chained
RECURSIVE list_build_unlinked(_, _, _, _)
list_build_unlinked(v, i, start, last_cdr) ==
    IF i < start THEN [vm |-> v, last_cdr |-> last_cdr]
    ELSE list_build_unlinked(alloc_pair(v, get_reg_unref(v, i), Nil),
                             i - 1, start, PairV(Len(v.pairs) + 1))

\* Vm::list, lines 14-19: the pairs are built from register end down to start
RECURSIVE list_build(_, _, _, _)
list_build(v, i, start, last_cdr) ==
    IF i < start THEN [vm |-> v, last_cdr |-> last_cdr]
    ELSE list_build(alloc_pair(v, get_reg_unref(v, i), last_cdr),
                    i - 1, start, PairV(Len(v.pairs) + 1))

list_set(built, dest, through) ==
    set_register(built.vm, dest, built.last_cdr, through)

list(v, dest, start, end, through) ==
    IF end < start THEN set_register(v, dest, Nil, through)
    ELSE list_set(list_build(v, end, start, Nil), dest, through)

\* the running state of Vm::append
AppendState(v) == [vm |-> v, head |-> Nil, last_cdr |-> Nil, err |-> NoError]

\* `match cdr { Nil => head = x, Pair(h) => *cdr = x, List => Err, _ => {} }`
append_link(a, prev, x) ==
    IF prev.t = "nil" THEN [a EXCEPT !.head = x]
    ELSE IF prev.t = "pair"
    THEN IF prev.v \in 1..Len(a.vm.pairs)
         THEN [a EXCEPT !.vm.pairs[prev.v].cdr = x]
         ELSE [a EXCEPT !.err = new_heap("Invalid handle!")]
    ELSE IF prev.t = "list"
    THEN [a EXCEPT !.err = new_heap("Pair is not mutable!")]
    ELSE a

\* lines 44-57 and 67-80: one element gets a fresh pair at the end of the chain
append_push(a, car) ==
    append_link([a EXCEPT !.vm = alloc_pair(a.vm, car, Nil),
                          !.last_cdr = PairV(Len(a.vm.pairs) + 1)],
                a.last_cdr, PairV(Len(a.vm.pairs) + 1))

\* a value that is not a list ends the chain wherever it is met
append_tail_lenient(a, x, is_end) == append_link(a, a.last_cdr, x)

\* lines 83-99 and 106-120: a value that is not a list ends the chain of the
\* last argument and is an error anywhere else
append_tail(a, x, is_end) ==
    IF is_end THEN append_link(a, a.last_cdr, x)
    ELSE [a EXCEPT !.err = new_vm("APND: Param not a list.")]

\* lines 42-104: the elements of one Pair or List argument
RECURSIVE append_walk(_, _, _)
append_walk(a, loop_cdr, is_end) ==
    IF a.err # NoError \/ loop_cdr.t = "nil" THEN a
    ELSE IF loop_cdr.t \in {"pair", "list"}
    THEN append_walk(append_push(a, get_pair(a.vm, loop_cdr).car),
                     get_pair(a.vm, loop_cdr).cdr, is_end)
    ELSE append_tail(a, loop_cdr, is_end)

\* the last argument's own pairs become the end of the result
append_arg_share(a, lst, is_end) ==
    IF lst.t = "nil" THEN a
    ELSE IF lst.t \in {"pair", "list"} /\ ~is_end THEN append_walk(a, lst, is_end)
    ELSE append_tail(a, lst, is_end)

append_arg(a, lst, is_end) ==
    IF lst.t = "nil" THEN a
    ELSE IF lst.t \in {"pair", "list"} THEN append_walk(a, lst, is_end)
    ELSE append_tail(a, lst, is_end)

\* line 38: for i in start..=end
RECURSIVE append_args(_, _, _)
append_args(a, i, end) ==
    IF a.err # NoError \/ i > end THEN a
    ELSE append_args(append_arg(a, get_reg_unref(a.vm, i), i = end), i + 1, end)

append_set(a, dest, through) ==
    IF a.err # NoError THEN [a.vm EXCEPT !.err = a.err]
    ELSE set_register(a.vm, dest, a.head, through)

append(v, dest, start, end, through) ==
    IF end < start THEN set_register(v, dest, Nil, through)
    ELSE append_set(append_args(AppendState(v), start, end), dest, through)

\* Vm::xar and Vm::xdr on the unref'd pair and value
xar_on(v, pair_reg, pair, val, through) ==
    IF pair.t = "pair"
    THEN IF pair.v \in 1..Len(v.pairs)
         THEN [v EXCEPT !.pairs[pair.v].car = val]
         ELSE [v EXCEPT !.err = new_heap("Invalid handle!")]
    ELSE IF pair.t = "nil"
    THEN set_register(alloc_pair(v, val, Nil), pair_reg,
                      PairV(Len(v.pairs) + 1), through)
    ELSE IF pair.t = "list"
    THEN [v EXCEPT !.err = new_vm("XAR: Pair is read only.")]
    ELSE [v EXCEPT !.err = new_vm("XAR: Not a pair/conscell.")]

\* the car is set in a copy of the pair, which the register then holds
xar_copy(v, pair_reg, val, through) ==
    IF get_reg_unref(v, pair_reg).t = "pair"
    THEN set_register(alloc_pair(v, get_reg_unref(v, val),
                                 get_pair(v, get_reg_unref(v, pair_reg)).cdr),
                      pair_reg, PairV(Len(v.pairs) + 1), through)
    ELSE xar_on(v, pair_reg, get_reg_unref(v, pair_reg),
                get_reg_unref(v, val), through)

xar(v, pair_reg, val, through) ==
    xar_on(v, pair_reg, get_reg_unref(v, pair_reg), get_reg_unref(v, val),
           through)

xdr_on(v, pair_reg, pair, val, through) ==
    IF pair.t = "pair"
    THEN IF pair.v \in 1..Len(v.pairs)
         THEN [v EXCEPT !.pairs[pair.v].cdr = val]
         ELSE [v EXCEPT !.err = new_heap("Invalid handle!")]
    ELSE IF pair.t = "nil"
    THEN set_register(alloc_pair(v, Nil, val), pair_reg,
                      PairV(Len(v.pairs) + 1), through)
    ELSE IF pair.t = "list"
    THEN [v EXCEPT !.err = new_vm("XDR: Pair is read only.")]
    ELSE [v EXCEPT !.err = new_vm("XDR: Not a pair/conscell.")]

xdr(v, pair_reg, val, through) ==
    xdr_on(v, pair_reg, get_reg_unref(v, pair_reg), get_reg_unref(v, val),
           through)

(***************************************************************************)
(* SpecCons: one cons opcode is run on a register file drawn from values    *)
(* held directly and behind indirection cells                              *)
(***************************************************************************)

MaxConsReg == 1

ConsRegs == 0..MaxConsReg

\* the heap before the opcode: the proper list (1 2), the improper pair
\* (3 . 4), a vector #(7 8), and one indirection cell for each direct value
ConsPairs ==
    <<[car |-> IntV(1), cdr |-> PairV(2)], [car |-> IntV(2), cdr |-> Nil],
      [car |-> IntV(3), cdr |-> IntV(4)]>>

ConsBoxes == <<Nil, IntV(5), PairV(1), PairV(3), ListV(0)>>

ConsValues ==
    {ConsBoxes[k] : k \in 1..Len(ConsBoxes)} \cup {BoxV(k) : k \in 1..Len(ConsBoxes)}

ConsVm(regs) ==
    [regs |-> regs, pairs |-> ConsPairs, vector |-> HeapVector(2, 7),
     boxes |-> ConsBoxes, overflow_checks |-> TRUE, err |-> NoError]

ConsReq(op, dest, start, end, through, before) ==
    [op |-> op, dest |-> dest, start |-> start, end |-> end,
     through |-> through, before |-> before]

InitCons ==
    /\ state = RootState
    /\ req = ConsReq("", 0, 0, 0, FALSE, ConsVm([r \in ConsRegs |-> Nil]))
    /\ phase = "cons"
    /\ vm \in {ConsVm(regs) : regs \in [ConsRegs -> ConsValues]}

OpList ==
    \E dest \in ConsRegs, start \in ConsRegs, end \in ConsRegs, through \in BOOLEAN :
        /\ phase = "cons"
        /\ vm' = list(vm, dest, start, end, through)
        /\ req' = ConsReq("LIST", dest, start, end, through, vm)
        /\ phase' = "done"
        /\ UNCHANGED state

OpAppend ==
    \E dest \in ConsRegs, start \in ConsRegs, end \in ConsRegs, through \in BOOLEAN :
        /\ phase = "cons"
        /\ vm' = append(vm, dest, start, end, through)
        /\ req' = ConsReq("APND", dest, start, end, through, vm)
        /\ phase' = "done"
        /\ UNCHANGED state

OpXar ==
    \E pair_reg \in ConsRegs, val \in ConsRegs, through \in BOOLEAN :
        /\ phase = "cons"
        /\ vm' = xar(vm, pair_reg, val, through)
        /\ req' = ConsReq("XAR", pair_reg, val, val, through, vm)
        /\ phase' = "done"
        /\ UNCHANGED state

OpXdr ==
    \E pair_reg \in ConsRegs, val \in ConsRegs, through \in BOOLEAN :
        /\ phase = "cons"
        /\ vm' = xdr(vm, pair_reg, val, through)
        /\ req' = ConsReq("XDR", pair_reg, val, val, through, vm)
        /\ phase' = "done"
        /\ UNCHANGED state

NextCons == OpList \/ OpAppend \/ OpXar \/ OpXdr

SpecCons == InitCons /\ [][NextCons]_vars

(* What a value looks like as a list *)

ChainFuel(v) == Len(v.pairs) + v.vector.len + 1

\* the handles of the pairs met along the cdrs from x
RECURSIVE ChainCells(_, _, _)
ChainCells(v, x, fuel) ==
    IF x.t = "pair" /\ fuel > 0
    THEN <<x.v>> \o ChainCells(v, v.pairs[x.v].cdr, fuel - 1)
    ELSE <<>>

\* the elements of a Pair chain or List view
RECURSIVE ChainElems(_, _, _)
ChainElems(v, x, fuel) ==
    IF x.t \in {"pair", "list"} /\ fuel > 0
    THEN <<get_pair(v, x).car>> \o ChainElems(v, get_pair(v, x).cdr, fuel - 1)
    ELSE <<>>

\* the value the cdrs end in: Nil for a proper list
RECURSIVE ChainTail(_, _, _)
ChainTail(v, x, fuel) ==
    IF x.t \in {"pair", "list"} /\ fuel > 0
    THEN ChainTail(v, get_pair(v, x).cdr, fuel - 1)
    ELSE x

Before == req.before

\* what the destination register holds after the opcode
Dst == Unref(vm, vm.regs[req.dest])

DstCells == ChainCells(vm, Dst, ChainFuel(vm))

DstElems == ChainElems(vm, Dst, ChainFuel(vm))

DstTail == ChainTail(vm, Dst, ChainFuel(vm))

\* what register i held, read through a cell, before the opcode
Arg(i) == Unref(Before, Before.regs[i])

ArgElems(i) == ChainElems(Before, Arg(i), ChainFuel(Before))

ArgTail(i) == ChainTail(Before, Arg(i), ChainFuel(Before))

FreshCells == \A k \in 1..Len(DstCells) : DstCells[k] > Len(Before.pairs)

KeptPairs == SubSeq(vm.pairs, 1, Len(Before.pairs)) = Before.pairs

OtherRegsKept == \A r \in ConsRegs \ {req.dest} : vm.regs[r] = Before.regs[r]

ListRan == phase = "done" /\ req.op = "LIST"

\* C13: LIST dst,start,end leaves in dst a proper list of end-start+1 fresh
\* pairs holding the unref'd values of registers start..end in ascending
\* order; with end < start it leaves Nil and allocates nothing; no register
\* other than dst changes.
C13_ListBuildsFreshProperList ==
    ListRan =>
        /\ vm.err = NoError
        /\ OtherRegsKept
        /\ KeptPairs
        /\ IF req.end < req.start
           THEN Dst = Nil /\ vm.pairs = Before.pairs
           ELSE /\ DstElems = [k \in 1..(req.end - req.start + 1) |->
                                  Arg(req.start + k - 1)]
                /\ DstTail = Nil
                /\ Len(DstCells) = req.end - req.start + 1
                /\ FreshCells
                /\ Len(vm.pairs) = Len(Before.pairs) + req.end - req.start + 1

\* a list of two registers, one of them read through a cell
C13_Witness ==
    /\ ListRan
    /\ req.start < req.end
    /\ \E i \in req.start..req.end : Before.regs[i].t = "box"
    /\ Len(DstElems) = 2
    /\ DstElems[1] # DstElems[2]

AppendRan == phase = "done" /\ req.op = "APND"

RECURSIVE ConcatArgs(_, _)
ConcatArgs(i, end) ==
    IF i > end THEN <<>> ELSE ArgElems(i) \o ConcatArgs(i + 1, end)

\* an argument that is not a proper list: a non-list value or an improper list
NotProper(i) == ArgTail(i) # Nil

AppendRefused == vm.err = new_vm("APND: Param not a list.")

\* C26: APND fails with the :vm error "APND: Param not a list." exactly when
\* a register before the last holds a non-list value or an improper list;
\* the failed opcode writes no register and changes no input pair.
C26_AppendRefusesNonListBeforeLast ==
    AppendRan =>
        /\ AppendRefused <=>
               \E i \in req.start..(req.end - 1) : NotProper(i)
        /\ AppendRefused =>
               /\ vm.regs = Before.regs
               /\ vm.boxes = Before.boxes
               /\ KeptPairs

\* the improper pair (3 . 4) before the last argument
C26_Witness ==
    /\ AppendRan
    /\ req.start < req.end
    /\ Arg(req.start) = PairV(3)
    /\ AppendRefused
    /\ vm.regs = Before.regs

MutateRan == phase = "done" /\ req.op \in {"XAR", "XDR"}

\* the pair operand and the value operand, as the opcode reads them
Target == Arg(req.dest)

NewVal == Arg(req.start)

MutatedPair(p) ==
    IF req.op = "XAR" THEN [car |-> NewVal, cdr |-> p.cdr]
    ELSE [car |-> p.car, cdr |-> NewVal]

FreshPair ==
    IF req.op = "XAR" THEN [car |-> NewVal, cdr |-> Nil]
    ELSE [car |-> Nil, cdr |-> NewVal]

\* C15: on a Pair, XAR sets the car and XDR the cdr of that very pair, the
\* other half unchanged, so every reference to the pair sees it; on Nil the
\* pair register gets a fresh (val . Nil) or (Nil . val); on anything else
\* the opcode fails and changes nothing.
C15_MutationInPlaceOrPromotion ==
    MutateRan =>
        IF Target.t = "pair"
        THEN /\ vm.err = NoError
             /\ vm.pairs = [Before.pairs EXCEPT ![Target.v] = MutatedPair(@)]
             /\ vm.regs = Before.regs
             /\ vm.boxes = Before.boxes
             /\ \A r \in ConsRegs :
                    Arg(r) = Target =>
                        /\ Unref(vm, vm.regs[r]) = Target
                        /\ vm.pairs[Unref(vm, vm.regs[r]).v] =
                               MutatedPair(Before.pairs[Target.v])
        ELSE IF Target.t = "nil"
        THEN /\ vm.err = NoError
             /\ vm.pairs = Append(Before.pairs, FreshPair)
             /\ Dst = PairV(Len(Before.pairs) + 1)
             /\ OtherRegsKept
        ELSE /\ vm.err # NoError
             /\ [vm EXCEPT !.err = NoError] = Before

\* XAR on a pair that another register refers to as well
C15_Witness ==
    /\ MutateRan
    /\ req.op = "XAR"
    /\ Target.t = "pair"
    /\ \E r \in ConsRegs \ {req.dest} :
           /\ Arg(r) = Target
           /\ get_pair(vm, Unref(vm, vm.regs[r])).car = NewVal
           /\ get_pair(Before, Arg(r)).car # NewVal

\* C16: XAR or XDR on a register holding a List view fails with a heap error
\* and leaves the vector and every register unchanged.
C16_ListViewMutationIsHeapError ==
    (MutateRan /\ Target.t = "list") =>
        /\ vm.err.kind = "heap"
        /\ vm.vector = Before.vector
        /\ vm.regs = Before.regs

\* what does hold: the failure is a vm error, and nothing changes
C16_ListViewMutationFails ==
    (MutateRan /\ Target.t = "list") =>
        /\ vm.err.kind = "vm"
        /\ [vm EXCEPT !.err = NoError] = Before

ConsOp(r, v) ==
    IF r.op = "LIST" THEN list(v, r.dest, r.start, r.end, r.through)
    ELSE IF r.op = "APND" THEN append(v, r.dest, r.start, r.end, r.through)
    ELSE IF r.op = "XAR" THEN xar(v, r.dest, r.start, r.through)
    ELSE xdr(v, r.dest, r.start, r.through)

ReadRegs(r) ==
    IF r.op \in {"LIST", "APND"} THEN r.start..r.end ELSE {r.dest, r.start}

\* register i holds the cell's target itself
Direct(v, i) == [v EXCEPT !.regs[i] = Unref(v, v.regs[i])]

SameResult(a, b, dest) ==
    /\ a.err = b.err
    /\ a.pairs = b.pairs
    /\ Unref(a, a.regs[dest]) = Unref(b, b.regs[dest])

\* C18: for LIST, APND, XAR and XDR and each register the opcode reads, the
\* run with an indirection cell in the register gives the same dst contents,
\* the same pairs and the same error as the run with the cell's target there.
C18_CellReadsAsItsTarget ==
    phase = "done" =>
        \A i \in ReadRegs(req) :
            Before.regs[i].t = "box" =>
                SameResult(vm, ConsOp(req, Direct(Before, i)), req.dest)

\* XDR on a pair read through a cell, the value read through another
C18_Witness ==
    /\ phase = "done"
    /\ req.op = "XDR"
    /\ Before.regs[req.dest].t = "box"
    /\ Before.regs[req.start].t = "box"
    /\ Target.t = "pair"
    /\ vm.pairs[Target.v].cdr = NewVal
    /\ vm.pairs # Before.pairs

(***************************************************************************)
(* SpecView: the cdr of a List view is taken again and again               *)
(* (core_types/src/value.rs, Value::get_pair)                              *)
(***************************************************************************)

MaxViewSteps == 4

ViewMargin == 2

\* vector lengths and view starts, small and around the u16 limit
ViewLens == (0..ViewMargin) \cup ((U16Max + 1 - ViewMargin)..(U16Max + 1 + ViewMargin))

ViewStarts == (0..ViewMargin) \cup ((U16Max - ViewMargin)..U16Max)

\* register 1 holds the view; element i of the vector is IntV(i)
ViewVm(len, start, overflow_checks) ==
    [regs |-> <<ListV(start)>>, pairs |-> <<>>, vector |-> HeapVector(len, 0),
     boxes |-> <<>>, overflow_checks |-> overflow_checks, err |-> NoError]

ViewReq(from, got, steps) == [from |-> from, got |-> got, steps |-> steps]

InitView ==
    /\ state = RootState
    /\ req = ViewReq(Nil, get_pair(ViewVm(0, 0, TRUE), Nil), 0)
    /\ phase = "view"
    /\ vm \in {ViewVm(len, start, oc) :
                  len \in ViewLens, start \in ViewStarts, oc \in BOOLEAN}

\* (car, cdr) = view.get_pair(vm); view = cdr
TakeCdr ==
    /\ phase = "view"
    /\ req.steps < MaxViewSteps
    /\ req' = ViewReq(vm.regs[1], get_pair(vm, vm.regs[1]), req.steps + 1)
    /\ vm' = IF req'.got.panic THEN vm ELSE [vm EXCEPT !.regs[1] = req'.got.cdr]
    /\ phase' = IF req'.got.panic THEN "panicked"
                ELSE IF req'.got.cdr.t = "nil" THEN "end" ELSE "view"
    /\ UNCHANGED state

NextView == TakeCdr

SpecView == InitView /\ [][NextView]_vars

\* get_pair has just been taken from a view that starts inside the vector
ViewTaken == req.steps > 0 /\ req.from.v < vm.vector.len

\* C17: get_pair of List(h,start) over a vector of length n gives the
\* element at start as car and List(h,start+1) as cdr while start+1 < n, Nil
\* at the last element, also for start near the u16 limit.
C17_ViewCdrIsNextView ==
    ViewTaken =>
        /\ ~req.got.panic
        /\ req.got.car = vector_at(vm.vector, req.from.v)
        /\ req.got.cdr = IF req.from.v + 1 < vm.vector.len
                         THEN ListV(req.from.v + 1) ELSE Nil

\* what does hold: the same, for every view but the one that starts at the
\* u16 limit in a vector that goes on past it
C17_ViewCdrBelowLimit ==
    (ViewTaken /\ ~(req.from.v = U16Max /\ U16Max + 1 < vm.vector.len)) =>
        /\ ~req.got.panic
        /\ req.got.car = vector_at(vm.vector, req.from.v)
        /\ req.got.cdr = IF req.from.v + 1 < vm.vector.len
                         THEN ListV(req.from.v + 1) ELSE Nil

\* at the limit the walk panics or starts over at the first element
C17_ViewCdrAtLimit ==
    (ViewTaken /\ req.from.v = U16Max /\ U16Max + 1 < vm.vector.len) =>
        \/ req.got.panic
        \/ req.got.cdr = ListV(0)

(***************************************************************************)
(* SpecInt: to_i56 and from_i56 (vm/src/value.rs).  An i64 is held as four  *)
(* 16-bit limbs <<w3, w2, w1, w0>>, w3 signed and the others unsigned, of   *)
(* value w3*2^48 + w2*2^32 + w1*2^16 + w0                                   *)
(***************************************************************************)

INT_BITS == 56

RECURSIVE Pow2(_)
Pow2(n) == IF n = 0 THEN 1 ELSE 2 * Pow2(n - 1)

INT_MAX == <<Pow2(INT_BITS - 1 - 48) - 1, 65535, 65535, 65535>>

INT_MIN == <<0 - Pow2(INT_BITS - 1 - 48), 0, 0, 0>>

\* i64::to_be_bytes: the eight bytes of the two's complement, high byte first
to_be_bytes(i) ==
    <<((i[1] + 65536) % 65536) \div 256, ((i[1] + 65536) % 65536) % 256,
      i[2] \div 256, i[2] % 256, i[3] \div 256, i[3] % 256,
      i[4] \div 256, i[4] % 256>>

\* i64::from_be_bytes
from_be_bytes(bytes) ==
    <<IF bytes[1] >= 128 THEN bytes[1] * 256 + bytes[2] - 65536
      ELSE bytes[1] * 256 + bytes[2],
      bytes[3] * 256 + bytes[4], bytes[5] * 256 + bytes[6],
      bytes[7] * 256 + bytes[8]>>

\* the high byte is always 0x00: no sign extension
from_i56_unsigned(arr) == from_be_bytes(<<0>> \o arr)

\* (arr[0] & 0x80) > 0 is arr[0] >= 128 for a byte
from_i56(arr) ==
    from_be_bytes(<<IF arr[1] >= 128 THEN 255 ELSE 0>> \o arr)

to_i56(i) == SubSeq(to_be_bytes(i), 2, 8)

IntMargin == 1

Near(x, c) == x - c <= IntMargin /\ c - x <= IntMargin

\* high limbs around the edges of i64, of the 56-bit range and of a byte
HighLimbs ==
    {x \in (0 - 32768)..32767 :
        \E c \in {0 - 32768, 0 - 256, 0 - 128, 0, 128, 256, 32767} : Near(x, c)}

LowLimbs == {x \in 0..65535 : Near(x, 0) \/ Near(x, 65535)}

IntVm(i, bytes7, out) == [i |-> i, bytes7 |-> bytes7, out |-> out]

InitInt ==
    /\ state = RootState
    /\ req = [op |-> ""]
    /\ phase = "int"
    /\ vm \in {IntVm(<<w3, w2, w1, w0>>, <<>>, <<>>) :
                  w3 \in HighLimbs, w2 \in LowLimbs, w1 \in LowLimbs,
                  w0 \in LowLimbs}

ToI56 ==
    /\ phase = "int"
    /\ vm' = [vm EXCEPT !.bytes7 = to_i56(vm.i)]
    /\ req' = [op |-> "to_i56"]
    /\ phase' = "packed"
    /\ UNCHANGED state

FromI56 ==
    /\ phase = "packed"
    /\ vm' = [vm EXCEPT !.out = from_i56(vm.bytes7)]
    /\ req' = [op |-> "from_i56"]
    /\ phase' = "unpacked"
    /\ UNCHANGED state

NextInt == ToI56 \/ FromI56

SpecInt == InitInt /\ [][NextInt]_vars

\* a <= b as integers
I64Le(a, b) ==
    \/ a[1] < b[1]
    \/ a[1] = b[1] /\ a[2] < b[2]
    \/ a[1] = b[1] /\ a[2] = b[2] /\ a[3] < b[3]
    \/ a[1] = b[1] /\ a[2] = b[2] /\ a[3] = b[3] /\ a[4] <= b[4]

InIntRange(i) == I64Le(INT_MIN, i) /\ I64Le(i, INT_MAX)

\* a - b is a multiple of 2^56: of 2^8 in the high limb, the rest equal
CongruentMod2p56(a, b) ==
    /\ (a[1] - b[1]) % 256 = 0
    /\ a[2] = b[2] /\ a[3] = b[3] /\ a[4] = b[4]

\* C19: from_i56(to_i56(i)) = i for INT_MIN <= i <= INT_MAX; for every i it
\* is the value of [INT_MIN, INT_MAX] congruent to i modulo 2^56.
C19_I56RoundTrip ==
    phase = "unpacked" =>
        /\ Len(vm.bytes7) = 7
        /\ InIntRange(vm.i) => vm.out = vm.i
        /\ InIntRange(vm.out)
        /\ CongruentMod2p56(vm.out, vm.i)

\* 2^55 + 1, just past INT_MAX, comes back as -2^55 + 1
C19_Witness ==
    /\ phase = "unpacked"
    /\ vm.i = <<128, 0, 0, 1>>
    /\ ~InIntRange(vm.i)
    /\ vm.out = <<0 - 128, 0, 0, 1>>

(***************************************************************************)
(* SpecExec: exec_expression (slosh/src/main.rs) reads every top-level form *)
(* of one input, then compiles and executes them one after the other.      *)
(* A form is known by what happens to it: it yields a value or Nil, or      *)
(* fails in pass1, in compile, in the final encode0(RET) or in execute     *)
(***************************************************************************)

MaxForms == 3

FormKinds ==
    {"value", "nil", "pass1-error", "compile-error", "ret-error", "runtime-error"}

CompileErrorKinds == {"pass1-error", "compile-error", "ret-error"}

ExpInputs == UNION {[1..n -> FormKinds] : n \in 1..MaxForms}

\* the forms read, the index of the next one, the chunks compiled, the forms
\* executed, the globals their execution defined, and the lines written
ExecVm(exps, read_err) ==
    [exps |-> exps, read_err |-> read_err, i |-> 1, chunks |-> <<>>,
     ran |-> <<>>, globals |-> {}, out |-> <<>>]

InitExec ==
    /\ state = RootState
    /\ req = [op |-> ""]
    /\ phase = "read"
    /\ vm \in {ExecVm(exps, re) : exps \in ExpInputs, re \in BOOLEAN}

\* lines 382-384 and 428: reader.collect() gives all forms or one error
ReadForms ==
    /\ phase = "read"
    /\ phase' = IF vm.read_err THEN "returned" ELSE "forms"
    /\ vm' = IF vm.read_err
             THEN [vm EXCEPT !.out = Append(@, <<"Reader error", 0>>)]
             ELSE vm
    /\ req' = [op |-> "read"]
    /\ UNCHANGED state

\* the lines 386-425 for one exp: what it leaves in the machine
exec_one(v, exp) ==
    IF exp = "pass1-error"
    THEN [v EXCEPT !.out = Append(@, <<"Compile error (pass1)", v.i>>)]
    ELSE IF exp = "compile-error"
    THEN [v EXCEPT !.out = Append(@, <<"Compile error", v.i>>)]
    ELSE IF exp = "ret-error"
    THEN [v EXCEPT !.out = Append(@, <<"Compile error (failed to add return...)", v.i>>)]
    ELSE IF exp = "runtime-error"
    THEN [v EXCEPT !.chunks = Append(@, v.i), !.ran = Append(@, v.i),
                   !.out = Append(@, <<"ERROR", v.i>>), !.i = @ + 1]
    ELSE [v EXCEPT !.chunks = Append(@, v.i), !.ran = Append(@, v.i),
                   !.globals = @ \cup {v.i},
                   !.out = IF exp = "nil" THEN @ ELSE Append(@, <<"value", v.i>>),
                   !.i = @ + 1]

\* `return` after a compile error, the next exp otherwise
exec_after(v, exp) ==
    IF exp \in CompileErrorKinds THEN "returned"
    ELSE IF v.i = Len(v.exps) THEN "done" ELSE "forms"

\* one turn of `for exp in exps`
ExecNextForm ==
    /\ phase = "forms"
    /\ vm.i <= Len(vm.exps)
    /\ vm' = exec_one(vm, vm.exps[vm.i])
    /\ phase' = exec_after(vm, vm.exps[vm.i])
    /\ req' = [op |-> vm.exps[vm.i]]
    /\ UNCHANGED state

NextExec == ReadForms \/ ExecNextForm

SpecExec == InitExec /\ [][NextExec]_vars

\* exec_expression is over, and the input was read
ExecOver == phase \in {"returned", "done"} /\ ~vm.read_err

InSeq(s, x) == \E k \in 1..Len(s) : s[k] = x

Reported(k) == \E j \in 1..Len(vm.out) : vm.out[j][2] = k /\ vm.out[j][1] # "value"

CompileFails(k) == vm.exps[k] \in CompileErrorKinds

\* C22: a compile-time error in form k is reported and stops form k only:
\* what forms 1..k-1 did remains, and every later form is still compiled and
\* executed; a runtime error in form k does not keep later forms from running.
C22_ErrorStopsOneFormOnly ==
    ExecOver =>
        \A k \in 1..Len(vm.exps) :
            IF CompileFails(k)
            THEN Reported(k) /\ ~InSeq(vm.ran, k)
            ELSE /\ InSeq(vm.chunks, k) /\ InSeq(vm.ran, k)
                 /\ vm.exps[k] = "runtime-error" => Reported(k)
                 /\ vm.exps[k] # "runtime-error" => k \in vm.globals

\* what does hold: the forms up to the first compile-time error are handled
\* as C22 says, runtime errors included, and no form after it is touched
C22_FirstCompileErrorEndsInput ==
    ExecOver =>
        \A k \in 1..Len(vm.exps) :
            IF \E j \in 1..(k - 1) : CompileFails(j)
            THEN ~Reported(k) /\ ~InSeq(vm.chunks, k) /\ ~InSeq(vm.ran, k)
            ELSE IF CompileFails(k)
            THEN Reported(k) /\ ~InSeq(vm.ran, k)
            ELSE /\ InSeq(vm.chunks, k) /\ InSeq(vm.ran, k)
                 /\ vm.exps[k] = "runtime-error" => Reported(k)
                 /\ vm.exps[k] # "runtime-error" => k \in vm.globals

(***************************************************************************)
(* SpecWalk: the ways core_types/src/value.rs and vm/src/value.rs look at   *)
(* a value as a list: is_proper_list, iter with PairIter, the get_pair      *)
(* walk, and display_value                                                 *)
(***************************************************************************)

MaxVecLen == 2

VectorV(h) == Val("vector", h)

\* (1 2), (3 . 4) and (5 . <view from 0>)
WalkPairs ==
    <<[car |-> IntV(1), cdr |-> PairV(2)], [car |-> IntV(2), cdr |-> Nil],
      [car |-> IntV(3), cdr |-> IntV(4)], [car |-> IntV(5), cdr |-> ListV(0)]>>

\* the values looked at directly
WalkDirect(len) ==
    {Nil, IntV(9), VectorV(1)} \cup {PairV(h) : h \in 1..Len(WalkPairs)}
        \cup {ListV(start) : start \in 0..len}

\* one indirection cell for each of them
WalkBoxes(len) ==
    <<Nil, IntV(9), VectorV(1), PairV(1), PairV(3), PairV(4), ListV(0), ListV(len)>>

WalkVm(len, x) ==
    [regs |-> <<x>>, pairs |-> WalkPairs, vector |-> HeapVector(len, 7),
     boxes |-> WalkBoxes(len), overflow_checks |-> TRUE, err |-> NoError]

WalkReq(op, out) == [op |-> op, out |-> out]

InitWalk ==
    /\ state = RootState
    /\ req = WalkReq("", <<>>)
    /\ phase = "walk"
    /\ vm \in {WalkVm(len, x) :
                  len \in 0..MaxVecLen,
                  x \in UNION {WalkDirect(n) : n \in 0..MaxVecLen}
                           \cup {BoxV(k) : k \in 1..Len(WalkBoxes(0))}}
    /\ vm.regs[1].t = "list" => vm.regs[1].v <= vm.vector.len

\* only a pair chain that ends in Nil is taken for a proper list
RECURSIVE is_proper_list_pairs(_, _)
is_proper_list_pairs(v, x) ==
    IF x.t = "pair"
    THEN IF v.pairs[x.v].cdr.t = "nil" THEN TRUE
         ELSE is_proper_list_pairs(v, v.pairs[x.v].cdr)
    ELSE FALSE

\* Value::is_proper_list
RECURSIVE is_proper_list(_, _)
is_proper_list(v, x) ==
    IF x.t = "pair"
    THEN IF v.pairs[x.v].cdr.t = "nil" THEN TRUE
         ELSE is_proper_list(v, v.pairs[x.v].cdr)
    ELSE x.t = "list"

\* PairIter::next until None: the cars, then any value that ends the chain
\* other than Nil
RECURSIVE PairIter(_, _)
PairIter(v, current) ==
    IF current.t = "pair"
    THEN <<v.pairs[current.v].car>> \o PairIter(v, v.pairs[current.v].cdr)
    ELSE IF current.t = "nil" THEN <<>>
    ELSE <<current>>

\* v[start..] of the heap vector
vector_from(vec, start) ==
    [k \in 1..(vec.len - start) |-> vector_at(vec, start + k - 1)]

\* Value::iter: the match is on self.unref(vm), PairIter is given *self
iter(v, self) ==
    IF Unref(v, self).t = "pair" THEN PairIter(v, self)
    ELSE IF Unref(v, self).t = "list" THEN vector_from(v.vector, Unref(v, self).v)
    ELSE IF Unref(v, self).t = "vector" THEN vector_from(v.vector, 0)
    ELSE <<>>

\* get_pair's car taken and its cdr followed until Nil
RECURSIVE get_pair_walk(_, _)
get_pair_walk(v, x) ==
    IF get_pair(v, x).cdr.t \in {"pair", "list"}
    THEN <<get_pair(v, x).car>> \o get_pair_walk(v, get_pair(v, x).cdr)
    ELSE <<get_pair(v, x).car>>

\* a piece of text pushed on the output string
Piece(text) == Val(text, 0)

\* list_out_iter: the items with one space between them
RECURSIVE list_out_iter(_, _)
list_out_iter(items, k) ==
    IF k > Len(items) THEN <<>>
    ELSE (IF k = 1 THEN <<>> ELSE <<Piece(" ")>>) \o <<items[k]>>
             \o list_out_iter(items, k + 1)

\* display_value of a List view, as the pieces pushed on the string
display_list(v, x) ==
    <<Piece("(")>> \o list_out_iter(vector_from(v.vector, x.v), 1) \o <<Piece(")")>>

IsProperList ==
    /\ phase = "walk"
    /\ req' = WalkReq("is_proper_list", is_proper_list(vm, vm.regs[1]))
    /\ phase' = "done"
    /\ UNCHANGED <<state, vm>>

Iter ==
    /\ phase = "walk"
    /\ req' = WalkReq("iter", iter(vm, vm.regs[1]))
    /\ phase' = "done"
    /\ UNCHANGED <<state, vm>>

GetPairWalk ==
    /\ phase = "walk"
    /\ vm.regs[1].t \in {"pair", "list"}
    /\ req' = WalkReq("get_pair", get_pair_walk(vm, vm.regs[1]))
    /\ phase' = "done"
    /\ UNCHANGED <<state, vm>>

DisplayList ==
    /\ phase = "walk"
    /\ vm.regs[1].t = "list"
    /\ req' = WalkReq("display_value", display_list(vm, vm.regs[1]))
    /\ phase' = "done"
    /\ UNCHANGED <<state, vm>>

NextWalk == IsProperList \/ Iter \/ GetPairWalk \/ DisplayList

SpecWalk == InitWalk /\ [][NextWalk]_vars

\* the value the opcode or accessor was given
Self == vm.regs[1]

\* the glossary: Nil, or a pair whose cdr is a proper list; a List view
\* counts as one
RECURSIVE ProperList(_, _)
ProperList(v, x) ==
    \/ x.t = "nil"
    \/ x.t = "list"
    \/ x.t = "pair" /\ ProperList(v, v.pairs[x.v].cdr)

\* C23 (as stated): is_proper_list(v) holds exactly when v is a proper list
\* of the glossary, Nil included
C23_ProperListOfGlossary ==
    req.op = "is_proper_list" => (req.out <=> ProperList(vm, Self))

\* C23 (amended): is_proper_list(v) holds exactly when v is a List view or a
\* pair whose cdr chain ends in Nil or in a List view; it is false for Nil,
\* for a pair chain that ends in anything else and for every other value
C23_NonEmptyProperList ==
    req.op = "is_proper_list" =>
        (req.out <=> (Self.t \in {"pair", "list"} /\ ProperList(vm, Self)))

\* C23 witness: true for (1 2) and for (5 . <view>), false for (3 . 4)
C23_Witness ==
    /\ req.op = "is_proper_list"
    /\ Self = PairV(4)
    /\ req.out = TRUE
    /\ is_proper_list(vm, PairV(1))
    /\ ~is_proper_list(vm, PairV(3))

\* iter was given a cell whose target is a pair chain, a view or a vector
IterOfCell ==
    /\ req.op = "iter"
    /\ Self.t = "box"
    /\ Unref(vm, Self).t \in {"pair", "list", "vector"}

\* C27: iterating a cell whose target is a Pair chain, a List view or a
\* Vector yields the elements that iterating the target yields
C27_IterOfCellIsIterOfTarget ==
    IterOfCell => req.out = iter(vm, Unref(vm, Self))

\* what does hold: so it is for a view and a vector; for a pair chain the
\* one item is the cell itself
C27_IterOfCellOfPairs ==
    IterOfCell =>
        IF Unref(vm, Self).t = "pair" THEN req.out = <<Self>>
        ELSE req.out = iter(vm, Unref(vm, Self))

\* a List view was walked or printed
ViewOp(op) == req.op = op /\ Self.t = "list" /\ Self.v <= vm.vector.len

\* the items between the brackets, spaces left out
Printed(out) == SelectSeq(SubSeq(out, 2, Len(out) - 1), LAMBDA p : p # Piece(" "))

\* C28: for a view List(h,start), start <= n, the get_pair walk gives the
\* sequence Value::iter gives and display_value prints; an empty view has no
\* elements under either
C28_ViewWalksAgree ==
    /\ ViewOp("get_pair") => req.out = iter(vm, Self)
    /\ ViewOp("display_value") => Printed(req.out) = iter(vm, Self)

\* what does hold: they agree for start < n; the get_pair walk of an empty
\* view has the one element Nil where iter has none
C28_EmptyViewWalksDiffer ==
    /\ ViewOp("get_pair") =>
          IF Self.v < vm.vector.len THEN req.out = iter(vm, Self)
          ELSE req.out = <<Nil>> /\ iter(vm, Self) = <<>>
    /\ ViewOp("display_value") => Printed(req.out) = iter(vm, Self)

(***************************************************************************)
(* SpecFnBody: compile_fn on fn and macro forms of every kind of body: none, *)
(* plain, capturing, failing in pass1 and failing in compile                *)
(***************************************************************************)

MaxBodyForms == 2

\* a constant, a captured name, a let that does not compile, a macro call
\* that does not expand
BodyForms ==
    {IntForm(0), Sym("y"), Let(<<Sym("x")>>, <<Sym("x")>>), FailingExpansion}

Bodies == UNION {[1..n -> BodyForms] : n \in 0..MaxBodyForms}

\* (a), (a % b := 3) and the malformed (7)
BodyParams ==
    {<<Sym("a")>>, <<Sym("a"), Sym("%"), Sym("b"), Kw(":="), IntForm(3)>>,
     <<IntForm(7)>>}

\* the builds with and without overflow checks, at top level and inside a
\* scope that binds y
InitFnBody ==
    /\ \E scope \in {RootState, insert(RootState, "y")}, debug \in BOOLEAN :
           state = [scope EXCEPT !.debug_build = debug]
    /\ req = [kind |-> "", params |-> <<>>, cdr |-> <<>>, before |-> RootState,
              is_macro |-> FALSE]
    /\ phase = "scope"
    /\ vm = RootVm

CompileFnBody ==
    \E params \in BodyParams, cdr \in Bodies, is_macro \in BOOLEAN :
        /\ phase = "scope"
        /\ state' = compile_fn(state, Vec(params), cdr, 1, is_macro)
        /\ req' = [kind |-> "fn", params |-> params, cdr |-> cdr,
                   before |-> state, is_macro |-> is_macro]
        /\ phase' = IF Failed(state') THEN "failed" ELSE "fn-compiled"
        /\ UNCHANGED vm

NextFnBody == CompileFnBody

SpecFnBody == InitFnBody /\ [][NextFnBody]_vars

\* the process aborted: an unwrap of an Err, or an overflow caught by the
\* build's checks
Panics == {"panic: pass1", "panic: attempt to subtract with overflow"}

FnCompiled == req.kind = "fn"

\* what compile_fn added to the parent chunk
FnEmitted == SubSeq(state.code, Len(req.before.code) + 1, Len(state.code))

\* CONST of the lambda, then CLOSE when the body captures
FnLoaded ==
    /\ Len(FnEmitted) \in {1, 2}
    /\ FnEmitted[1].op = "CONST"
    /\ Len(FnEmitted) = 2 => FnEmitted[2].op = "CLOSE"
    /\ Len(FnEmitted) = 2 <=> Len(state.heap[Len(state.heap)].captures) > 0

\* C25: compile_fn never aborts the process: for every fn or macro form, one
\* with no body or with a body that fails in pass1 included, it emits the
\* function (CONST, and CLOSE when there are captures) or returns a compile
\* error, and with an error nothing of the function is in the parent chunk
C25_FnEmittedOrCompileError ==
    FnCompiled =>
        /\ state.err \notin Panics
        /\ IF Failed(state) THEN FnEmitted = <<>> ELSE FnLoaded

\* what does hold: so it is unless the body fails in pass1, or is empty in a
\* build with overflow checks; then the process aborts
C25_FnAbortsOnPass1OrEmptyBody ==
    FnCompiled =>
        /\ IF Failed(state) THEN FnEmitted = <<>> ELSE FnLoaded
        /\ state.err \in Panics =>
              \/ \E k \in 1..Len(req.cdr) : req.cdr[k] = FailingExpansion
              \/ Len(req.cdr) = 0 /\ req.before.debug_build
        /\ ((\E k \in 1..Len(req.cdr) : req.cdr[k] = FailingExpansion)
            /\ ~Failed(mk_state(req.before, Vec(req.params)).ns)) =>
              state.err = "panic: pass1"

(***************************************************************************)
(* SpecHeap: sequences of LIST, APND, XAR and XDR from an empty heap, the   *)
(* registers holding Nil or an integer at the start                        *)
(***************************************************************************)

MaxHeapOps == 3

HeapVm(regs) ==
    [regs |-> regs, pairs |-> <<>>, vector |-> HeapVector(0, 0),
     boxes |-> <<>>, overflow_checks |-> TRUE, err |-> NoError]

HeapReq(op, steps, before) == [op |-> op, steps |-> steps, before |-> before]

InitHeap ==
    /\ state = RootState
    /\ vm \in {HeapVm(regs) : regs \in [ConsRegs -> {Nil, IntV(5)}]}
    /\ req = HeapReq("", 0, vm)
    /\ phase = "heap"

\* the walk of a chain by its cdrs never reaches an end
Cycle == Val("cycle", 0)

\* where the cdr walk of Vm::append's inner loop (lines 58-103) stops
RECURSIVE walk_end(_, _, _)
walk_end(v, x, fuel) ==
    IF x.t # "pair" THEN x
    ELSE IF fuel = 0 THEN Cycle
    ELSE walk_end(v, v.pairs[x.v].cdr, fuel - 1)

WalkEnd(v, i) == walk_end(v, get_reg_unref(v, i), Len(v.pairs))

\* the loop of lines 58-103 never breaks: an argument whose cdrs form a
\* cycle is reached before any argument that is refused
AppendDiverges(v, start, end) ==
    \E i \in start..end :
        /\ WalkEnd(v, i) = Cycle
        /\ \A j \in start..(i - 1) : WalkEnd(v, j) = Nil

\* the opcode loop goes on after an opcode that returned Ok
HeapStep(op) ==
    /\ phase = "heap"
    /\ req.steps < MaxHeapOps
    /\ req' = HeapReq(op, req.steps + 1, vm)
    /\ phase' = IF vm'.err = NoError THEN "heap" ELSE "failed"
    /\ UNCHANGED state

HeapList ==
    \E dest \in ConsRegs, start \in ConsRegs, end \in ConsRegs :
        /\ vm' = list(vm, dest, start, end, FALSE)
        /\ HeapStep("LIST")

HeapAppend ==
    \E dest \in ConsRegs, start \in ConsRegs, end \in ConsRegs :
        IF AppendDiverges(vm, start, end)
        THEN /\ phase = "heap"
             /\ req.steps < MaxHeapOps
             /\ req' = HeapReq("APND", req.steps + 1, vm)
             /\ phase' = "diverged"
             /\ UNCHANGED <<state, vm>>
        ELSE /\ vm' = append(vm, dest, start, end, FALSE)
             /\ HeapStep("APND")

HeapXar ==
    \E pair_reg \in ConsRegs, val \in ConsRegs :
        /\ vm' = xar(vm, pair_reg, val, FALSE)
        /\ HeapStep("XAR")

HeapXdr ==
    \E pair_reg \in ConsRegs, val \in ConsRegs :
        /\ vm' = xdr(vm, pair_reg, val, FALSE)
        /\ HeapStep("XDR")

NextHeap == HeapList \/ HeapAppend \/ HeapXar \/ HeapXdr

SpecHeap == InitHeap /\ [][NextHeap]_vars

\* the pairs that the car and the cdr of pair p lead to
PairSucc(v, p) ==
    {x.v : x \in {y \in {v.pairs[p].car, v.pairs[p].cdr} : y.t = "pair"}}

RECURSIVE PairsFrom(_, _, _)
PairsFrom(v, ps, fuel) ==
    IF fuel = 0 THEN ps
    ELSE PairsFrom(v, ps \cup UNION {PairSucc(v, p) : p \in ps}, fuel - 1)

RegPairs(v) ==
    PairsFrom(v, {v.regs[r].v : r \in {q \in ConsRegs : v.regs[q].t = "pair"}},
              Len(v.pairs))

\* following car and cdr from a pair a register reaches never comes back to
\* that pair
Acyclic(v) ==
    \A p \in RegPairs(v) : p \notin PairsFrom(v, PairSucc(v, p), Len(v.pairs))

\* C29: after any sequence of LIST, APND, XAR and XDR from an empty heap the
\* pair structures reachable from the registers are acyclic, and so no walk
\* of them (here APND's) fails to terminate
C29_ReachablePairsAcyclic == Acyclic(vm) /\ phase # "diverged"

\* what does hold: LIST and APND build no cycle; only XAR and XDR do
C29_ListAndAppendBuildNoCycle ==
    [][(req'.op \in {"LIST", "APND"} /\ Acyclic(vm)) => Acyclic(vm')]_vars

\* XDR r, r on a register holding a one-pair list: the pair's cdr is the pair
C29_SelfCdr ==
    /\ req.op = "XDR"
    /\ vm.regs[0].t = "pair"
    /\ vm.pairs[vm.regs[0].v].cdr = vm.regs[0]

====
